---- MODULE Spec2Model ----
(***************************************************************************)
(* Model of the Teamwork MCP adapter: the tool layer (teamwork_mcp/server.py *)
(* and the legacy server.py) and the Remote Client (teamwork_mcp/client.py). *)
(*                                                                           *)
(* One tool invocation is in progress at a time.  A tool first builds a      *)
(* client from the inbound header bag, then runs the client method, which    *)
(* issues its HTTP requests one after the other.  Every request is appended  *)
(* to `reqs` together with the outcome the remote gave it.  When the tool    *)
(* has returned or raised, pc = "done" and `result` holds what the caller    *)
(* gets; Return then discards the transient session.  `remote` holds the     *)
(* tasks of the scope a time-totals operation reads, page by page, and       *)
(* `calls` the client methods the tool has called, with their arguments.     *)
(*                                                                           *)
(* Two invocations that overlap in time are the subject of SpecPair: `inv`   *)
(* holds the session of each of them.                                        *)
(*                                                                           *)
(* Python values: a dict is a function whose DOMAIN is its key set, an       *)
(* omitted optional argument is a key missing from `args`, a str whose       *)
(* characters matter is a sequence of one-character strings, and a value     *)
(* that may be None is None == <<>> or Some(v) == <<v>>.                     *)
(***************************************************************************)
EXTENDS Integers, Sequences, FiniteSets, TLC

VARIABLES env, pc, tool, hdr, args, client, reqs, locals, result, remote,
          calls, inv

vars == <<env, pc, tool, hdr, args, client, reqs, locals, result, remote, calls,
          inv>>

None == <<>>
Some(v) == <<v>>

EmptyDict == <<>>

\* dict.get(k): the value under k, None when the key is missing
Get(d, k) == IF k \in DOMAIN d THEN d[k] ELSE None

\* dict.get(k, default)
GetOr(d, k, default) == IF k \in DOMAIN d THEN d[k] ELSE default

----------------------------------------------------------------------------
(* Bounds of the model *)

\* largest total task count the remote reports
MaxTotal == 31
\* largest overdue task count the remote reports
MaxOverdue == 4
\* largest due-this-week count the remote reports
MaxThisWeek == 1
\* how far beyond the truncation limit a description may run
DescOver == 3
\* longest project list of one page
MaxProjects == 2

\* most task pages a scope has
MaxPages == 2
\* tasks on a full page
MaxPageTasks == 2
\* most tasks the project of an observed summary has
MaxRemoteTasks == 2

----------------------------------------------------------------------------
(* Program constants *)

\* client.py: len(description) > 200
TruncLimit == 200
\* client.py: description[:197]
KeepLen == 197
\* client.py: overdue_pct >= 10
AtRiskPct == 10
\* client.py: overdue_count >= 3
AtRiskCount == 3
\* client.py: not 0 <= progress <= 100
ProgressMin == 0
ProgressMax == 100

----------------------------------------------------------------------------
(* The environment of the process and the inbound header bags *)

\* TEAMWORK_DOMAIN: unset ("") or a default installation domain
EnvDomains == {"", "default.teamwork.com"}
\* TEAMWORK_ACCESS_TOKEN: unset (None) or a token
EnvTokens == {None, Some("envTok")}

\* values of the Authorization header
AuthValues ==
    { [scheme |-> "Bearer", token |-> "tokA"],
      [scheme |-> "Bearer", token |-> ""],
      [scheme |-> "Basic", token |-> "dXNlcg"] }

\* values of the x-teamwork-domain header
DomainValues == {"", "acme.teamwork.com"}

HeaderBags ==
    {EmptyDict}
    \cup { [authorization |-> a] : a \in AuthValues }
    \cup { ("x-teamwork-domain" :> d) : d \in DomainValues }
    \cup { ("authorization" :> a) @@ ("x-teamwork-domain" :> d) :
             a \in AuthValues, d \in DomainValues }

\* mcp_base.extract_token_from_headers: the bearer token of the Authorization
\* header, None when there is none
extract_token_from_headers(headers) ==
    IF "authorization" \in DOMAIN headers
          /\ headers["authorization"].scheme = "Bearer"
    THEN Some(headers["authorization"].token)
    ELSE None

\* Python truthiness of an optional str
Truthy(opt) == opt # None /\ opt[1] # ""

ValueError(msg) == [kind |-> "error", type |-> "ValueError", msg |-> msg]
AuthenticationError(msg) ==
    [kind |-> "error", type |-> "AuthenticationError", msg |-> msg]
RuntimeError(msg) == [kind |-> "error", type |-> "RuntimeError", msg |-> msg]

\* TeamworkClient.__init__
TeamworkClient(access_token, installation_domain) ==
    [ access_token |-> access_token,
      installation_domain |-> installation_domain,
      base_url |-> <<"https://", installation_domain, "/projects/api/v3">> ]

\* GatewayDomain with the operands of `or` swapped: the default wins
GatewayDomainDefaultFirst(headers, default_domain) ==
    IF default_domain # "" THEN default_domain
    ELSE IF "x-teamwork-domain" \in DOMAIN headers
    THEN headers["x-teamwork-domain"]
    ELSE ""

\* headers.get("x-teamwork-domain") or DEFAULT_DOMAIN
GatewayDomain(headers, default_domain) ==
    IF "x-teamwork-domain" \in DOMAIN headers /\ headers["x-teamwork-domain"] # ""
    THEN headers["x-teamwork-domain"]
    ELSE default_domain

\* get_teamwork_client without its check of the domain
get_teamwork_client_unchecked_domain(headers, default_domain) ==
    LET access_token == extract_token_from_headers(headers)
        domain == GatewayDomain(headers, default_domain)
    IN  IF ~Truthy(access_token)
        THEN [ok |-> FALSE, error |-> ValueError("Missing Authorization header")]
        ELSE [ok |-> TRUE, client |-> TeamworkClient(access_token[1], domain)]

\* teamwork_mcp/server.py get_teamwork_client: [ok, client] or [ok, error]
get_teamwork_client(headers, default_domain) ==
    LET access_token == extract_token_from_headers(headers)
        domain == GatewayDomain(headers, default_domain)
    IN  IF ~Truthy(access_token)
        THEN [ok |-> FALSE, error |-> ValueError("Missing Authorization header")]
        ELSE IF domain = ""
        THEN [ok |-> FALSE,
              error |-> ValueError("Teamwork installation domain is required")]
        ELSE [ok |-> TRUE, client |-> TeamworkClient(access_token[1], domain)]

\* mcp_base.extract_bearer_token(ctx, fallback_env="TEAMWORK_ACCESS_TOKEN"):
\* the outcomes it can give.  A bearer token in the headers is returned; with
\* none the environment variable is the fallback; for an empty bearer token
\* the library may return it or fall back.
extract_bearer_token(headers, env_token) ==
    LET t == extract_token_from_headers(headers)
    IN  IF Truthy(t) THEN {t}
        ELSE IF t = None THEN {env_token}
        ELSE {t, env_token}

\* server.py: default="dynamic8.teamwork.com"
LegacyDefaultDomain == "dynamic8.teamwork.com"

\* mcp_base.extract_header(ctx, "X-Teamwork-Domain",
\* fallback_env="TEAMWORK_DOMAIN", default="dynamic8.teamwork.com"): the
\* outcomes it can give.  The header when it has a value, else the environment
\* variable, else the default; an empty header may be returned or replaced.
extract_header(headers, env_domain) ==
    LET fallback == IF env_domain # "" THEN env_domain ELSE LegacyDefaultDomain
    IN  IF "x-teamwork-domain" \notin DOMAIN headers THEN {fallback}
        ELSE IF headers["x-teamwork-domain"] # ""
        THEN {headers["x-teamwork-domain"]}
        ELSE {"", fallback}

\* server.py _get_client, for one outcome of each extraction
_get_client(access_token, installation_domain) ==
    IF ~Truthy(access_token)
    THEN [ok |-> FALSE,
          error |-> AuthenticationError("No Teamwork access token available")]
    ELSE [ok |-> TRUE,
          client |-> TeamworkClient(access_token[1], installation_domain)]

----------------------------------------------------------------------------
(* Requests *)

\* what the remote does with one request
Outcomes == {"ok", "http_error", "transport_error"}

\* a request that takes its path for the whole address after the scheme
RequestToPath(c, method, path, params, json_data, outcome) ==
    [ api |-> "v3",
      method |-> method,
      host |-> path[1],
      url |-> <<"https://">> \o path,
      authorization |-> <<"Bearer ", c.access_token>>,
      params |-> params,
      json |-> json_data,
      outcome |-> outcome ]

\* BaseAPIClient._request(method, path, params, json_data) on the v3 base URL
\* of the client, as it leaves the client
Request(c, method, path, params, json_data, outcome) ==
    [ api |-> "v3",
      method |-> method,
      host |-> c.installation_domain,
      url |-> c.base_url \o path,
      authorization |-> <<"Bearer ", c.access_token>>,
      params |-> params,
      json |-> json_data,
      outcome |-> outcome ]

\* a failed request raises; nothing is returned
RequestError(outcome) == RuntimeError(outcome)

Ok(value) == [kind |-> "ok", value |-> value]

NoResult == [kind |-> "none"]

----------------------------------------------------------------------------
(* _request_v1 *)

\* status codes the remote answers with
V1Statuses == {200, 201, 204, 304, 400, 404, 500}

\* raw bodies the remote answers with
V1Texts == {"", "{\"STATUS\":\"OK\",\"TASKLISTID\":\"77\"}", "{\"MESSAGE\":\"Not found\"}"}

\* failures of requests.request below HTTP
TransportFailures == {"Timeout", "ConnectionError"}

\* what requests.request gives: a response, or a raised RequestException
V1Responses ==
    { [kind |-> "response", status |-> st, text |-> t] : st \in V1Statuses, t \in V1Texts }
    \cup { [kind |-> "raised", exception |-> e] : e \in TransportFailures }

\* response.json()
JsonDecode(text) ==
    CASE text = "{\"STATUS\":\"OK\",\"TASKLISTID\":\"77\"}"
            -> [STATUS |-> "OK", TASKLISTID |-> "77"]
      [] text = "{\"MESSAGE\":\"Not found\"}" -> [MESSAGE |-> "Not found"]
      [] OTHER -> EmptyDict

\* raise_for_status that raises for server errors only
RaisesForStatusServerOnly(status) == 500 <= status /\ status < 600

\* response.raise_for_status() raises HTTPError
RaisesForStatus(status) == 400 <= status /\ status < 600

\* how a v1 request ends, as the request log records it
V1Outcome(resp) ==
    IF resp.kind = "raised" THEN "transport_error"
    ELSE IF RaisesForStatus(resp.status) THEN "http_error"
    ELSE "ok"

\* V1Attempts with a second attempt after a failed one
V1AttemptsRetrying(c, method, path, json_data, resp) ==
    LET attempt == [ api |-> "v1",
                     method |-> method,
                     host |-> c.installation_domain,
                     url |-> <<"https://", c.installation_domain>> \o path,
                     authorization |-> <<"Bearer ", c.access_token>>,
                     params |-> None,
                     json |-> json_data,
                     outcome |-> V1Outcome(resp) ]
    IN  IF V1Outcome(resp) = "ok" THEN <<attempt>> ELSE <<attempt, attempt>>

\* the HTTP requests one call of _request_v1 issues
V1Attempts(c, method, path, json_data, resp) ==
    << [ api |-> "v1",
         method |-> method,
         host |-> c.installation_domain,
         url |-> <<"https://", c.installation_domain>> \o path,
         authorization |-> <<"Bearer ", c.access_token>>,
         params |-> None,
         json |-> json_data,
         outcome |-> V1Outcome(resp) ] >>

\* _request_v1 without the test for status 204
_request_v1_content_only(resp) ==
    IF resp.kind = "raised"
    THEN RuntimeError([what |-> "TeamworkClient v1 request failed",
                       cause |-> resp.exception])
    ELSE IF RaisesForStatus(resp.status)
    THEN RuntimeError([what |-> "TeamworkClient v1 API error",
                       status |-> resp.status, text |-> resp.text])
    ELSE IF resp.text = ""
    THEN Ok([success |-> TRUE])
    ELSE Ok(JsonDecode(resp.text))

\* TeamworkClient._request_v1 after requests.request: what it returns or raises
_request_v1(resp) ==
    IF resp.kind = "raised"
    THEN RuntimeError([what |-> "TeamworkClient v1 request failed",
                       cause |-> resp.exception])
    ELSE IF RaisesForStatus(resp.status)
    THEN RuntimeError([what |-> "TeamworkClient v1 API error",
                       status |-> resp.status, text |-> resp.text])
    ELSE IF resp.status = 204 \/ resp.text = ""
    THEN Ok([success |-> TRUE])
    ELSE Ok(JsonDecode(resp.text))

----------------------------------------------------------------------------
(* list_projects *)

\* the fields list_projects keeps in minimal mode
MinimalProject(project) ==
    [ id |-> Get(project, "id"),
      name |-> Get(project, "name"),
      status |-> Get(project, "status"),
      company |-> LET c == Get(project, "company")
                  IN  IF c = None THEN None ELSE Get(c[1], "name") ]

\* list_projects that trims whatever the flag says
list_projects_always_minimal(response, include_details) ==
    LET projects == GetOr(response, "projects", <<>>)
    IN  [ projects |-> [i \in 1..Len(projects) |-> MinimalProject(projects[i])],
          meta |-> GetOr(response, "meta", EmptyDict) ]

\* TeamworkClient.list_projects, from the decoded response
list_projects(response, include_details) ==
    IF ~include_details
    THEN LET projects == GetOr(response, "projects", <<>>)
         IN  [ projects |-> [i \in 1..Len(projects) |-> MinimalProject(projects[i])],
               meta |-> GetOr(response, "meta", EmptyDict) ]
    ELSE response

\* projects as the remote returns them (a JSON value v is Some(v), null is None)
RemoteProjects ==
    { [ id |-> Some("101"), name |-> Some("Alpha"), status |-> Some("active"),
        company |-> Some([id |-> Some("9"), name |-> Some("Acme")]),
        description |-> Some("full text"),
        timeBudget |-> None,
        financialBudget |-> Some([id |-> Some("127645"), type |-> "budgets"]) ],
      [ id |-> Some("102"), name |-> Some("Beta"), status |-> Some("archived"),
        company |-> None,
        timeBudget |-> Some([id |-> Some("88"), type |-> "budgets"]),
        financialBudget |-> None ],
      [ id |-> Some("103"), status |-> Some("active"),
        company |-> Some([id |-> Some("9")]) ] }

\* sequences of at most n elements of S
RECURSIVE SeqsUpTo(_, _)
SeqsUpTo(S, n) ==
    IF n = 0 THEN {<<>>}
    ELSE LET shorter == SeqsUpTo(S, n - 1)
         IN  shorter \cup { Append(s, x) : s \in shorter, x \in S }

PageMeta == [page |-> [count |-> 3, hasMore |-> FALSE]]

\* decoded bodies of GET /projects.json
ListBodies ==
    {EmptyDict}
    \cup { [projects |-> ps] : ps \in SeqsUpTo(RemoteProjects, MaxProjects) }
    \cup { [projects |-> ps, meta |-> PageMeta] :
             ps \in SeqsUpTo(RemoteProjects, MaxProjects) }

ListProjectsArgs ==
    { [page |-> 1, page_size |-> 25, include_details |-> d] : d \in BOOLEAN }

----------------------------------------------------------------------------
(* create_task and update_task *)

\* d when cond holds, else nothing: one "if ...: payload[k] = v" of the code
When(cond, d) == IF cond THEN d ELSE EmptyDict

Has(a, k) == k \in DOMAIN a

\* an optional argument: omitted, or one of vals
Opt(k, vals) == {EmptyDict} \cup { (k :> v) : v \in vals }

\* int(tasklist_id): the number a decimal string denotes, None (ValueError)
\* for a string that is not a number
ParseInt(s) ==
    CASE s = "55" -> Some(55)
      [] s = "7" -> Some(7)
      [] OTHER -> None

TasklistIds == {"55", "inbox"}
TaskIds == {"4001"}

\* the estimate check with < for <=
CreateEstimateBadNegativeOnly(estimated_minutes) == estimated_minutes < 0

\* create_task: if estimated_minutes <= 0: raise
CreateEstimateBad(estimated_minutes) == estimated_minutes <= 0

\* create_task: if not 0 <= progress <= 100: raise
CreateProgressBad(progress) == ~(ProgressMin <= progress /\ progress <= ProgressMax)

\* TeamworkClient.create_task up to its request: the payload, or the error raised
create_task(a) ==
    IF ParseInt(a.tasklist_id) = None
    THEN [ok |-> FALSE, error |-> ValueError("invalid literal for int()")]
    ELSE IF Has(a, "estimated_minutes") /\ CreateEstimateBad(a.estimated_minutes)
    THEN [ok |-> FALSE,
          error |-> ValueError("estimated_minutes must be a positive value")]
    ELSE IF Has(a, "progress") /\ CreateProgressBad(a.progress)
    THEN [ok |-> FALSE, error |-> ValueError("progress must be between 0 and 100")]
    ELSE [ok |-> TRUE,
          payload |->
            [task |->
                [name |-> a.name, tasklistId |-> ParseInt(a.tasklist_id)[1]]
                @@ When(Has(a, "description") /\ a.description # "",
                        "description" :> GetOr(a, "description", ""))
                @@ When(Has(a, "due_date") /\ a.due_date # "",
                        "dueDate" :> GetOr(a, "due_date", ""))
                @@ When(Has(a, "assignee_ids") /\ a.assignee_ids # <<>>,
                        "assigneeIds" :> GetOr(a, "assignee_ids", <<>>))
                @@ When(Has(a, "priority") /\ a.priority # "",
                        "priority" :> GetOr(a, "priority", ""))
                @@ When(Has(a, "estimated_minutes"),
                        "estimatedMinutes" :> GetOr(a, "estimated_minutes", 0))
                @@ When(Has(a, "progress"),
                        "progress" :> GetOr(a, "progress", 0)) ]]

\* update_task: if estimated_minutes <= 0: raise
UpdateEstimateBad(estimated_minutes) == estimated_minutes <= 0

\* the progress check without its lower bound
UpdateProgressBadUpperOnly(progress) == ~(progress <= ProgressMax)

\* update_task: if not 0 <= progress <= 100: raise
UpdateProgressBad(progress) == ~(ProgressMin <= progress /\ progress <= ProgressMax)

\* update_task that sends completed whether it was supplied or not
update_task_completed_default(a) ==
    IF Has(a, "estimated_minutes") /\ UpdateEstimateBad(a.estimated_minutes)
    THEN [ok |-> FALSE,
          error |-> ValueError("estimated_minutes must be a positive value")]
    ELSE IF Has(a, "progress") /\ UpdateProgressBad(a.progress)
    THEN [ok |-> FALSE, error |-> ValueError("progress must be between 0 and 100")]
    ELSE [ok |-> TRUE,
          payload |->
            [task |->
                When(Has(a, "name"), "name" :> GetOr(a, "name", ""))
                @@ When(Has(a, "description"),
                        "description" :> GetOr(a, "description", ""))
                @@ ("completed" :> GetOr(a, "completed", FALSE))
                @@ When(Has(a, "due_date"), "dueDate" :> GetOr(a, "due_date", ""))
                @@ When(Has(a, "priority"), "priority" :> GetOr(a, "priority", ""))
                @@ When(Has(a, "estimated_minutes"),
                        "estimatedMinutes" :> GetOr(a, "estimated_minutes", 0))
                @@ When(Has(a, "progress"),
                        "progress" :> GetOr(a, "progress", 0)) ]]

\* TeamworkClient.update_task up to its request: the payload, or the error raised
update_task(a) ==
    IF Has(a, "estimated_minutes") /\ UpdateEstimateBad(a.estimated_minutes)
    THEN [ok |-> FALSE,
          error |-> ValueError("estimated_minutes must be a positive value")]
    ELSE IF Has(a, "progress") /\ UpdateProgressBad(a.progress)
    THEN [ok |-> FALSE, error |-> ValueError("progress must be between 0 and 100")]
    ELSE [ok |-> TRUE,
          payload |->
            [task |->
                When(Has(a, "name"), "name" :> GetOr(a, "name", ""))
                @@ When(Has(a, "description"),
                        "description" :> GetOr(a, "description", ""))
                @@ When(Has(a, "completed"),
                        "completed" :> GetOr(a, "completed", FALSE))
                @@ When(Has(a, "due_date"), "dueDate" :> GetOr(a, "due_date", ""))
                @@ When(Has(a, "priority"), "priority" :> GetOr(a, "priority", ""))
                @@ When(Has(a, "estimated_minutes"),
                        "estimatedMinutes" :> GetOr(a, "estimated_minutes", 0))
                @@ When(Has(a, "progress"),
                        "progress" :> GetOr(a, "progress", 0)) ]]

EstimateValues == {-5, 0, 60}
ProgressValues == {-1, 0, 50, 100, 101, 150}

CreateTaskArgs ==
    { [name |-> "Write report", tasklist_id |-> tl] @@ d @@ du @@ az @@ pr @@ es @@ pg :
        tl \in TasklistIds,
        d \in Opt("description", {"", "text"}),
        du \in Opt("due_date", {"2026-01-31"}),
        az \in Opt("assignee_ids", {<<>>, <<"7">>}),
        pr \in Opt("priority", {"high"}),
        es \in Opt("estimated_minutes", EstimateValues),
        pg \in Opt("progress", ProgressValues) }

UpdateTaskArgs ==
    { [task_id |-> t] @@ n @@ d @@ c @@ du @@ pr @@ es @@ pg :
        t \in TaskIds,
        n \in Opt("name", {"Renamed"}),
        d \in Opt("description", {"", "text"}),
        c \in Opt("completed", BOOLEAN),
        du \in Opt("due_date", {"2026-01-31"}),
        pr \in Opt("priority", {"high"}),
        es \in Opt("estimated_minutes", EstimateValues),
        pg \in Opt("progress", ProgressValues) }

\* the arguments the legacy teamwork_update_task tool can pass on
LegacyUpdateTaskArgs ==
    { a \in UpdateTaskArgs : ~Has(a, "estimated_minutes") /\ ~Has(a, "progress") }

TaskBody == [task |-> [id |-> Some("4001")]]

----------------------------------------------------------------------------
(* create_task_list and update_task_list *)

\* create_task_list with the payload under the envelope key of the v3 API
create_task_list_v3_envelope(a) ==
    [ok |-> TRUE,
     payload |->
        [tasklist |->
            ([name |-> a.name]
             @@ When(Has(a, "description") /\ a.description # "",
                     "description" :> GetOr(a, "description", "")))]]

\* TeamworkClient.create_task_list up to its request
create_task_list(a) ==
    [ok |-> TRUE,
     payload |->
        ("todo-list" :>
            ([name |-> a.name]
             @@ When(Has(a, "description") /\ a.description # "",
                     "description" :> GetOr(a, "description", ""))))]

\* TeamworkClient.update_task_list up to its request
update_task_list(a) ==
    IF ~Has(a, "name") /\ ~Has(a, "description")
    THEN [ok |-> FALSE,
          error |-> ValueError("update_task_list requires at least one of 'name' or 'description'")]
    ELSE [ok |-> TRUE,
          payload |->
            ("todo-list" :>
                (When(Has(a, "name"), "name" :> GetOr(a, "name", ""))
                 @@ When(Has(a, "description"),
                         "description" :> GetOr(a, "description", ""))))]

CreateTaskListArgs ==
    { [project_id |-> p, name |-> "Sprint 1"] @@ d :
        p \in {"101"}, d \in Opt("description", {"", "text"}) }

UpdateTaskListArgs ==
    { [tasklist_id |-> "55"] @@ n @@ d :
        n \in Opt("name", {"Renamed"}), d \in Opt("description", {"", "text"}) }

----------------------------------------------------------------------------
(* Time totals and the unofficial budget.  The client methods behind the    *)
(* tools of teamwork_mcp/server.py lines 209-314 are modelled after the      *)
(* specification of the Derived Metrics Calculator.                          *)

\* the time figures of the tasks of the remote
TimeTasks ==
    { [estimated_minutes |-> 60, logged_minutes |-> 0],
      [estimated_minutes |-> 0, logged_minutes |-> 60],
      [estimated_minutes |-> 60, logged_minutes |-> 60] }

\* the tasks of a scope as the remote pages them: at least one page, every
\* page but the last one full
RECURSIVE Paginate(_)
Paginate(tasks) ==
    IF Len(tasks) <= MaxPageTasks THEN <<tasks>>
    ELSE <<SubSeq(tasks, 1, MaxPageTasks)>>
         \o Paginate(SubSeq(tasks, MaxPageTasks + 1, Len(tasks)))

\* the time figures of the tasks of a paged scope
PagedTimeTasks ==
    { t \in TimeTasks : t.estimated_minutes = 0 \/ t.logged_minutes = 0 }

TaskRemotes ==
    { [pages |-> Paginate(ts)] :
        ts \in SeqsUpTo(PagedTimeTasks, MaxPages * MaxPageTasks) }

\* the decoded body of page p of the tasks of the scope
TasksPage(r, p) ==
    [ tasks |-> r.pages[p],
      meta |-> [page |-> [hasMore |-> p < Len(r.pages)]] ]

\* sum(task[field] for task in tasks)
RECURSIVE SumOf(_, _)
SumOf(tasks, field) ==
    IF tasks = <<>> THEN 0
    ELSE tasks[1][field] + SumOf(Tail(tasks), field)

\* TimeTotals with >= for > in the over-budget test
TimeTotalsInclusive(key, id, estimated, logged) ==
    (key :> id)
    @@ [ estimated_minutes |-> estimated,
         minutes |-> logged,
         remaining_minutes |-> estimated - logged,
         is_over_budget |-> logged >= estimated ]

\* what time_totals reports for a scope
TimeTotals(key, id, estimated, logged) ==
    (key :> id)
    @@ [ estimated_minutes |-> estimated,
         minutes |-> logged,
         remaining_minutes |-> estimated - logged,
         is_over_budget |-> logged > estimated ]

\* PercentUsed that is absent only when time is logged against no estimate
PercentUsedZeroForIdle(estimated, logged) ==
    IF estimated > 0 THEN Some(<<logged * 100, estimated>>)
    ELSE IF logged > 0 THEN None
    ELSE Some(<<0, 1>>)

\* percent_used: logged / estimated * 100 as the fraction <<numerator,
\* denominator>>, None without an estimate
PercentUsed(estimated, logged) ==
    IF estimated > 0 THEN Some(<<logged * 100, estimated>>) ELSE None

\* project.get(field) is a budget reference
HasBudget(project, field) == Get(project, field) # None

\* what estimate_project_budget reports
BudgetEstimate(project_id, project, estimated, logged) ==
    [ project_id |-> project_id,
      project_name |-> Get(project, "name"),
      budget_type |-> "estimated",
      budget_minutes |-> estimated,
      used_minutes |-> logged,
      remaining_minutes |-> estimated - logged,
      percent_used |-> PercentUsed(estimated, logged),
      is_over_budget |-> logged > estimated,
      has_official_budget |->
          HasBudget(project, "timeBudget") \/ HasBudget(project, "financialBudget") ]

\* decoded bodies of GET /projects/{id}.json for the budget estimate
BudgetProjectBodies ==
    { [project |-> [id |-> Some("101"), name |-> Some("Alpha"),
                    timeBudget |-> tb, financialBudget |-> fb]] :
        tb \in {None}, fb \in {None, Some([id |-> 127645])} }
    \cup { [project |-> [id |-> Some("101"), name |-> Some("Alpha")]] }

\* the tools that page through the tasks of a scope, with the argument that
\* names the scope and the path of its tasks
PagedScopes ==
    { [tool |-> "get_project_time_totals", key |-> "project_id", id |-> "101",
       path |-> <<"/projects/", "101", "/tasks.json">>],
      [tool |-> "get_tasklist_time_totals", key |-> "tasklist_id", id |-> "55",
       path |-> <<"/tasklists/", "55", "/tasks.json">>] }

----------------------------------------------------------------------------
(* get_project_summary *)

\* a / b of two ints: the quotient as the pair <<a, b>>, None (ZeroDivisionError)
\* when b = 0
Divide(a, b) == IF b = 0 THEN None ELSE Some(<<a, b>>)

\* q * 100 >= pct for the quotient q.  The code computes it in floats; for
\* counts below 2^53 the float result agrees with the exact comparison
\* whenever overdue_count < 3, and overdue_count >= 3 decides the health alone.
PctAtLeast(q, pct) == q[1] * 100 >= pct * q[2]

\* Health with > for >= in the percentage test
HealthStrictPct(total_count, overdue_count) ==
    IF total_count = 0
    THEN "on-track"
    ELSE LET q == Divide(overdue_count, total_count)
         IN  IF q = None THEN "ZeroDivisionError"
             ELSE IF q[1][1] * 100 > AtRiskPct * q[1][2] \/ overdue_count >= AtRiskCount
             THEN "at-risk"
             ELSE "on-track"

\* Health without the test for an empty project
HealthUnguarded(total_count, overdue_count) ==
    LET q == Divide(overdue_count, total_count)
    IN  IF q = None THEN "ZeroDivisionError"
        ELSE IF PctAtLeast(q[1], AtRiskPct) \/ overdue_count >= AtRiskCount
        THEN "at-risk"
        ELSE "on-track"

\* the health indicator of get_project_summary
Health(total_count, overdue_count) ==
    IF total_count = 0
    THEN "on-track"
    ELSE LET q == Divide(overdue_count, total_count)
         IN  IF q = None THEN "ZeroDivisionError"
             ELSE IF PctAtLeast(q[1], AtRiskPct) \/ overdue_count >= AtRiskCount
             THEN "at-risk"
             ELSE "on-track"

Ellipsis == <<".", ".", ".">>

\* Truncate with >= for >
TruncateInclusive(description) ==
    IF Len(description) >= TruncLimit
    THEN SubSeq(description, 1, KeepLen) \o Ellipsis
    ELSE description

\* if len(description) > 200: description = description[:197] + "..."
Truncate(description) ==
    IF Len(description) > TruncLimit
    THEN SubSeq(description, 1, KeepLen) \o Ellipsis
    ELSE description

\* project_data.get("description", "") or ""
DescriptionOf(project_data) ==
    LET d == GetOr(project_data, "description", Some(<<>>))
    IN  IF d = None THEN <<>> ELSE d[1]

\* X.get("meta", {}).get("page", {}).get("count", 0)
CountOf(body) ==
    GetOr(GetOr(GetOr(body, "meta", EmptyDict), "page", EmptyDict), "count", 0)

\* the summary with the total and the overdue count in each other's place
SummaryStatsSwapped(project, total_count, overdue_count, thisweek_count, health) ==
    LET project_data == GetOr(project, "project", EmptyDict)
    IN  [ project |-> [ id |-> Get(project_data, "id"),
                        name |-> Get(project_data, "name"),
                        status |-> Get(project_data, "status"),
                        description |-> Truncate(DescriptionOf(project_data)) ],
          taskStats |-> [ total |-> overdue_count,
                          overdue |-> total_count,
                          dueThisWeek |-> thisweek_count ],
          health |-> health ]

\* the value get_project_summary returns
Summary(project, total_count, overdue_count, thisweek_count, health) ==
    LET project_data == GetOr(project, "project", EmptyDict)
    IN  [ project |-> [ id |-> Get(project_data, "id"),
                        name |-> Get(project_data, "name"),
                        status |-> Get(project_data, "status"),
                        description |-> Truncate(DescriptionOf(project_data)) ],
          taskStats |-> [ total |-> total_count,
                          overdue |-> overdue_count,
                          dueThisWeek |-> thisweek_count ],
          health |-> health ]

\* a description of n characters
Desc(n, pattern) ==
    [i \in 1..n |-> IF pattern = 2 THEN "."
                    ELSE IF i % 3 = 0 THEN "c" ELSE IF i % 3 = 1 THEN "a" ELSE "b"]

DescLens == {0, 1} \cup ((TruncLimit - 1)..(TruncLimit + DescOver))

Descriptions ==
    { Desc(n, 1) : n \in DescLens }
    \cup { Desc(n, 2) : n \in {TruncLimit, TruncLimit + 1} }

ProjectIds == {"101"}

\* decoded bodies of GET /projects/{id}.json
ProjectBodies ==
    {EmptyDict}
    \cup { [project |-> [id |-> Some("101"), name |-> Some("Alpha")]] }
    \cup { [project |-> [id |-> Some("101"), name |-> Some("Alpha"),
                         status |-> Some("active"), description |-> None]] }
    \cup { [project |-> [id |-> Some("101"), name |-> Some("Alpha"),
                         status |-> Some("active"), description |-> Some(d)]] :
             d \in Descriptions }

\* decoded bodies of a task query that reports at most n tasks
CountBodies(n) ==
    {EmptyDict} \cup { [meta |-> [page |-> [count |-> k]]] : k \in 0..n }

----------------------------------------------------------------------------
(* get_my_tasks *)

\* me.get("person", {}).get("id") or me.get("id")
UserIdOf(me) ==
    LET person == GetOr(me, "person", EmptyDict)
    IN  IF Has(person, "id") /\ person.id # 0 THEN Some(person.id)
        ELSE IF Has(me, "id") THEN Some(me.id)
        ELSE None

\* str(user_id)
Str(user_id) == IF user_id = None THEN "None" ELSE ToString(user_id[1])

\* MyTasksParams that leaves includeCompletedTasks out unless it is wanted
MyTasksParamsOmitting(user_id, date_filter, include_completed, page_size) ==
    [ responsiblePartyIds |-> user_id,
      filter |-> date_filter,
      pageSize |-> page_size ]
    @@ When(include_completed, "includeCompletedTasks" :> "true")

\* the query parameters of TeamworkClient.get_my_tasks
MyTasksParams(user_id, date_filter, include_completed, page_size) ==
    [ responsiblePartyIds |-> user_id,
      filter |-> date_filter,
      pageSize |-> page_size,
      includeCompletedTasks |-> IF include_completed THEN "true" ELSE "false" ]

\* decoded bodies of GET /me.json
MeBodies ==
    { EmptyDict, [person |-> [id |-> 7]], [id |-> 7],
      [person |-> [id |-> 0], id |-> 7], [person |-> [firstName |-> "Ada"]] }

MyTasksArgs ==
    { [date_filter |-> f, include_completed |-> c] :
        f \in {"within7", "overdue"}, c \in BOOLEAN }

TasksBody == [tasks |-> <<>>, meta |-> [page |-> [count |-> 0]]]

----------------------------------------------------------------------------
(* update_project, archive_project and complete_task *)

\* update_project without the check of its fields
update_project_unchecked(a) ==
    [ok |-> TRUE,
     payload |->
        [project |->
            When(Has(a, "name"), "name" :> GetOr(a, "name", ""))
            @@ When(Has(a, "description"),
                    "description" :> GetOr(a, "description", ""))
            @@ When(Has(a, "status"), "status" :> GetOr(a, "status", ""))
            @@ When(Has(a, "start_date"),
                    "startDate" :> GetOr(a, "start_date", ""))
            @@ When(Has(a, "end_date"), "endDate" :> GetOr(a, "end_date", "")) ]]

\* TeamworkClient.update_project up to its request: the payload, or the error
update_project(a) ==
    IF \A k \in {"name", "description", "status", "start_date", "end_date"} :
          ~Has(a, k)
    THEN [ok |-> FALSE,
          error |-> ValueError("update_project requires at least one field to update")]
    ELSE [ok |-> TRUE,
          payload |->
            [project |->
                When(Has(a, "name"), "name" :> GetOr(a, "name", ""))
                @@ When(Has(a, "description"),
                        "description" :> GetOr(a, "description", ""))
                @@ When(Has(a, "status"), "status" :> GetOr(a, "status", ""))
                @@ When(Has(a, "start_date"),
                        "startDate" :> GetOr(a, "start_date", ""))
                @@ When(Has(a, "end_date"),
                        "endDate" :> GetOr(a, "end_date", "")) ]]

\* archive_project as an update of nothing
archive_project_bare(a) == update_project([project_id |-> a.project_id])

\* TeamworkClient.archive_project: self.update_project(project_id, status="archived")
archive_project(a) ==
    update_project([project_id |-> a.project_id, status |-> "archived"])

\* TeamworkClient.complete_task: self.update_task(task_id, completed=True)
complete_task(a) == update_task([task_id |-> a.task_id, completed |-> TRUE])

UpdateProjectArgs ==
    { [project_id |-> p] @@ n @@ d @@ st @@ sd @@ ed :
        p \in ProjectIds,
        n \in Opt("name", {"Beta"}),
        d \in Opt("description", {"", "text"}),
        st \in Opt("status", {"active", "archived"}),
        sd \in Opt("start_date", {"2026-01-01"}),
        ed \in Opt("end_date", {"2026-12-31"}) }

ArchiveProjectArgs == { [project_id |-> p] : p \in ProjectIds }

CompleteTaskArgs == { [task_id |-> t] : t \in TaskIds }

\* decoded body of the answer to a PATCH of a project
ProjectBody == [project |-> [id |-> Some("101")]]

----------------------------------------------------------------------------
(* The tools and the client methods they call *)

\* the tools create_app registers: the client method each calls first, the
\* parameters of the tool and the parameters it passes to that method
GatewayTools ==
    {[tool |-> "list_projects", method |-> "list_projects",
       params |-> {"page", "page_size", "include_details"},
       passes |-> {"page", "page_size", "include_details"}],
      [tool |-> "get_project", method |-> "get_project",
       params |-> {"project_id"},
       passes |-> {"project_id"}],
      [tool |-> "get_project_budget", method |-> "get_project_budget",
       params |-> {"budget_id"},
       passes |-> {"budget_id"}],
      [tool |-> "list_project_budgets", method |-> "list_project_budgets",
       params |-> {"project_id"},
       passes |-> {"project_id"}],
      [tool |-> "create_project", method |-> "create_project",
       params |-> {"name", "description", "start_date", "end_date"},
       passes |-> {"name", "description", "start_date", "end_date"}],
      [tool |-> "get_project_time_totals", method |-> "get_project_time_totals",
       params |-> {"project_id"},
       passes |-> {"project_id"}],
      [tool |-> "get_tasklist_time_totals", method |-> "get_tasklist_time_totals",
       params |-> {"tasklist_id"},
       passes |-> {"tasklist_id"}],
      [tool |-> "get_task_time_totals", method |-> "get_task_time_totals",
       params |-> {"task_id"},
       passes |-> {"task_id"}],
      [tool |-> "estimate_project_budget", method |-> "estimate_project_budget",
       params |-> {"project_id"},
       passes |-> {"project_id"}],
      [tool |-> "list_tasks", method |-> "list_tasks",
       params |-> {"project_id", "page", "page_size"},
       passes |-> {"project_id", "page", "page_size"}],
      [tool |-> "get_task", method |-> "get_task",
       params |-> {"task_id"},
       passes |-> {"task_id"}],
      [tool |-> "create_teamwork_task", method |-> "create_task",
       params |-> {"tasklist_id", "name", "description", "due_date",
                   "assignee_ids", "priority", "estimated_minutes", "progress"},
       passes |-> {"name", "tasklist_id", "description", "due_date",
                   "assignee_ids", "priority", "estimated_minutes", "progress"}],
      [tool |-> "update_task", method |-> "update_task",
       params |-> {"task_id", "name", "description", "due_date", "priority",
                   "completed", "estimated_minutes", "progress"},
       passes |-> {"task_id", "name", "description", "due_date", "priority",
                   "completed", "estimated_minutes", "progress"}],
      [tool |-> "complete_task", method |-> "complete_task",
       params |-> {"task_id"},
       passes |-> {"task_id"}],
      [tool |-> "log_time", method |-> "log_time",
       params |-> {"project_id", "hours", "description", "date", "task_id"},
       passes |-> {"project_id", "hours", "description", "date", "task_id"}],
      [tool |-> "get_time_entries", method |-> "get_time_entries",
       params |-> {"project_id", "user_id", "page", "page_size"},
       passes |-> {"project_id", "user_id", "page", "page_size"}],
      [tool |-> "list_people", method |-> "list_people",
       params |-> {"page", "page_size"},
       passes |-> {"page", "page_size"}],
      [tool |-> "get_me", method |-> "get_me",
       params |-> {},
       passes |-> {}],
      [tool |-> "get_my_tasks", method |-> "get_me",
       params |-> {"date_filter", "include_completed"},
       passes |-> {}],
      [tool |-> "get_project_summary", method |-> "get_project_summary",
       params |-> {"project_id"},
       passes |-> {"project_id"}],
      [tool |-> "list_task_lists", method |-> "list_task_lists",
       params |-> {"project_id", "page", "page_size"},
       passes |-> {"project_id", "page", "page_size"}],
      [tool |-> "create_task_list", method |-> "create_task_list",
       params |-> {"project_id", "name", "description"},
       passes |-> {"project_id", "name", "description"}],
      [tool |-> "update_task_list", method |-> "update_task_list",
       params |-> {"tasklist_id", "name", "description"},
       passes |-> {"tasklist_id", "name", "description"}],
      [tool |-> "list_task_comments", method |-> "list_task_comments",
       params |-> {"task_id", "page", "page_size"},
       passes |-> {"task_id", "page", "page_size"}],
      [tool |-> "add_task_comment", method |-> "add_task_comment",
       params |-> {"task_id", "body"},
       passes |-> {"task_id", "body"}],
      [tool |-> "list_tags", method |-> "list_tags",
       params |-> {"page", "page_size"},
       passes |-> {"page", "page_size"}],
      [tool |-> "add_tag_to_task", method |-> "add_tag_to_task",
       params |-> {"task_id", "tag_ids"},
       passes |-> {"task_id", "tag_ids"}],
      [tool |-> "list_milestones", method |-> "list_milestones",
       params |-> {"project_id", "page", "page_size"},
       passes |-> {"project_id", "page", "page_size"}],
      [tool |-> "get_milestone", method |-> "get_milestone",
       params |-> {"milestone_id"},
       passes |-> {"milestone_id"}],
      [tool |-> "list_subtasks", method |-> "list_subtasks",
       params |-> {"task_id", "page", "page_size"},
       passes |-> {"task_id", "page", "page_size"}],
      [tool |-> "create_subtask", method |-> "create_subtask",
       params |-> {"task_id", "name", "description", "assignee_ids"},
       passes |-> {"task_id", "name", "description", "assignee_ids"}],
      [tool |-> "list_notebooks", method |-> "list_notebooks",
       params |-> {"project_id", "page", "page_size"},
       passes |-> {"project_id", "page", "page_size"}],
      [tool |-> "get_notebook", method |-> "get_notebook",
       params |-> {"notebook_id"},
       passes |-> {"notebook_id"}],
      [tool |-> "update_project", method |-> "update_project",
       params |-> {"project_id", "name", "description", "status", "start_date",
                   "end_date"},
       passes |-> {"project_id", "name", "description", "status", "start_date",
                   "end_date"}],
      [tool |-> "archive_project", method |-> "archive_project",
       params |-> {"project_id"},
       passes |-> {"project_id"}],
      [tool |-> "move_task", method |-> "move_task",
       params |-> {"task_id", "target_tasklist_id", "target_project_id"},
       passes |-> {"task_id", "target_tasklist_id", "target_project_id"}],
      [tool |-> "list_messages", method |-> "list_messages",
       params |-> {"project_id", "page", "page_size"},
       passes |-> {"project_id", "page", "page_size"}],
      [tool |-> "create_message", method |-> "create_message",
       params |-> {"project_id", "title", "body", "notify", "category_id"},
       passes |-> {"project_id", "title", "body", "category_id", "notify"}],
      [tool |-> "get_active_timer", method |-> "get_active_timer",
       params |-> {},
       passes |-> {}],
      [tool |-> "start_timer", method |-> "start_timer",
       params |-> {"project_id", "task_id", "description", "is_billable"},
       passes |-> {"project_id", "task_id", "description", "is_billable"}],
      [tool |-> "stop_timer", method |-> "stop_timer",
       params |-> {"timer_id", "description", "is_billable"},
       passes |-> {"timer_id", "description", "is_billable"}],
      [tool |-> "pause_timer", method |-> "pause_timer",
       params |-> {"timer_id"},
       passes |-> {"timer_id"}],
      [tool |-> "resume_timer", method |-> "resume_timer",
       params |-> {"timer_id"},
       passes |-> {"timer_id"}],
      [tool |-> "cancel_timer", method |-> "cancel_timer",
       params |-> {"timer_id"},
       passes |-> {"timer_id"}] }

\* the tools _register_teamwork_tools registers
LegacyTools ==
    {[tool |-> "teamwork_list_projects", method |-> "list_projects",
       params |-> {"page", "page_size"},
       passes |-> {"page", "page_size"}],
      [tool |-> "teamwork_get_project", method |-> "get_project",
       params |-> {"project_id"},
       passes |-> {"project_id"}],
      [tool |-> "teamwork_create_project", method |-> "create_project",
       params |-> {"name", "description", "start_date", "end_date"},
       passes |-> {"name", "description", "start_date", "end_date"}],
      [tool |-> "teamwork_list_tasks", method |-> "list_tasks",
       params |-> {"project_id", "page", "page_size"},
       passes |-> {"project_id", "page", "page_size"}],
      [tool |-> "teamwork_get_task", method |-> "get_task",
       params |-> {"task_id"},
       passes |-> {"task_id"}],
      [tool |-> "teamwork_create_task", method |-> "create_task",
       params |-> {"name", "tasklist_id", "description", "due_date",
                   "assignee_ids", "priority"},
       passes |-> {"name", "tasklist_id", "description", "due_date",
                   "assignee_ids", "priority"}],
      [tool |-> "teamwork_update_task", method |-> "update_task",
       params |-> {"task_id", "name", "description", "completed", "due_date",
                   "priority"},
       passes |-> {"task_id", "name", "description", "completed", "due_date",
                   "priority"}],
      [tool |-> "teamwork_complete_task", method |-> "complete_task",
       params |-> {"task_id"},
       passes |-> {"task_id"}],
      [tool |-> "teamwork_list_time_entries", method |-> "list_time_entries",
       params |-> {"project_id", "page", "page_size"},
       passes |-> {"project_id", "page", "page_size"}],
      [tool |-> "teamwork_log_time", method |-> "log_time",
       params |-> {"project_id", "hours", "description", "date", "task_id"},
       passes |-> {"project_id", "hours", "description", "date", "task_id"}],
      [tool |-> "teamwork_list_people", method |-> "list_people",
       params |-> {"project_id"},
       passes |-> {"project_id"}],
      [tool |-> "teamwork_get_me", method |-> "get_me",
       params |-> {},
       passes |-> {}] }

\* the public methods teamwork_mcp/client.py defines
ClientMethodsDefined ==
    { "list_projects", "get_project", "create_project", "list_tasks",
      "get_task", "create_task", "update_task", "complete_task",
      "list_time_entries", "log_time", "list_people", "get_me",
      "get_my_tasks", "get_project_summary", "list_task_lists",
      "create_task_list", "list_task_comments", "add_task_comment",
      "list_tags", "add_tag_to_task", "list_milestones", "get_milestone",
      "list_subtasks", "create_subtask", "list_notebooks", "get_notebook",
      "update_project", "archive_project", "update_task_list", "move_task",
      "list_messages", "create_message", "get_active_timer", "start_timer",
      "stop_timer", "pause_timer", "resume_timer", "cancel_timer" }

\* the client methods the tools call that teamwork_mcp/client.py does not
\* define: the budget lookups, the time totals and get_time_entries
ClientMethodsUndefined ==
    { "get_project_budget", "list_project_budgets", "get_project_time_totals",
      "get_tasklist_time_totals", "get_task_time_totals",
      "estimate_project_budget", "get_time_entries" }

\* ClientMethods as teamwork_mcp/client.py alone has them
ClientMethodsOfOneRevision == ClientMethodsDefined

\* the methods of the Remote Client
ClientMethods == ClientMethodsDefined \cup ClientMethodsUndefined

\* the one request of each client method that issues one: the request
\* function it calls, the HTTP method, the path with the argument that goes
\* into it, and whether it sends a query or a JSON payload
ClientRequests ==
    {[method |-> "list_projects", api |-> "v3", http |-> "GET",
       prefix |-> "/projects.json", arg |-> "", suffix |-> "",
       sends |-> "params"],
      [method |-> "get_project", api |-> "v3", http |-> "GET",
       prefix |-> "/projects/", arg |-> "project_id", suffix |-> ".json",
       sends |-> "none"],
      [method |-> "create_project", api |-> "v3", http |-> "POST",
       prefix |-> "/projects.json", arg |-> "", suffix |-> "",
       sends |-> "json"],
      [method |-> "list_tasks", api |-> "v3", http |-> "GET",
       prefix |-> "/tasks.json", arg |-> "", suffix |-> "",
       sends |-> "params"],
      [method |-> "get_task", api |-> "v3", http |-> "GET",
       prefix |-> "/tasks/", arg |-> "task_id", suffix |-> ".json",
       sends |-> "none"],
      [method |-> "create_task", api |-> "v3", http |-> "POST",
       prefix |-> "/tasklists/", arg |-> "tasklist_id", suffix |-> "/tasks.json",
       sends |-> "json"],
      [method |-> "update_task", api |-> "v3", http |-> "PATCH",
       prefix |-> "/tasks/", arg |-> "task_id", suffix |-> ".json",
       sends |-> "json"],
      [method |-> "list_time_entries", api |-> "v3", http |-> "GET",
       prefix |-> "/time.json", arg |-> "", suffix |-> "",
       sends |-> "params"],
      [method |-> "log_time", api |-> "v3", http |-> "POST",
       prefix |-> "/timers.json", arg |-> "", suffix |-> "",
       sends |-> "json"],
      [method |-> "list_people", api |-> "v3", http |-> "GET",
       prefix |-> "/people.json", arg |-> "", suffix |-> "",
       sends |-> "params"],
      [method |-> "get_me", api |-> "v3", http |-> "GET",
       prefix |-> "/me.json", arg |-> "", suffix |-> "",
       sends |-> "none"],
      [method |-> "get_my_tasks", api |-> "v3", http |-> "GET",
       prefix |-> "/tasks.json", arg |-> "", suffix |-> "",
       sends |-> "params"],
      [method |-> "list_task_lists", api |-> "v3", http |-> "GET",
       prefix |-> "/projects/", arg |-> "project_id", suffix |-> "/tasklists.json",
       sends |-> "params"],
      [method |-> "create_task_list", api |-> "v1", http |-> "POST",
       prefix |-> "/projects/", arg |-> "project_id", suffix |-> "/tasklists.json",
       sends |-> "json"],
      [method |-> "list_task_comments", api |-> "v3", http |-> "GET",
       prefix |-> "/tasks/", arg |-> "task_id", suffix |-> "/comments.json",
       sends |-> "params"],
      [method |-> "add_task_comment", api |-> "v3", http |-> "POST",
       prefix |-> "/tasks/", arg |-> "task_id", suffix |-> "/comments.json",
       sends |-> "json"],
      [method |-> "list_tags", api |-> "v3", http |-> "GET",
       prefix |-> "/tags.json", arg |-> "", suffix |-> "",
       sends |-> "params"],
      [method |-> "add_tag_to_task", api |-> "v3", http |-> "PUT",
       prefix |-> "/tasks/", arg |-> "task_id", suffix |-> "/tags.json",
       sends |-> "json"],
      [method |-> "list_milestones", api |-> "v3", http |-> "GET",
       prefix |-> "/projects/", arg |-> "project_id", suffix |-> "/milestones.json",
       sends |-> "params"],
      [method |-> "get_milestone", api |-> "v3", http |-> "GET",
       prefix |-> "/milestones/", arg |-> "milestone_id", suffix |-> ".json",
       sends |-> "none"],
      [method |-> "list_subtasks", api |-> "v3", http |-> "GET",
       prefix |-> "/tasks/", arg |-> "task_id", suffix |-> "/subtasks.json",
       sends |-> "params"],
      [method |-> "create_subtask", api |-> "v3", http |-> "POST",
       prefix |-> "/tasks.json", arg |-> "", suffix |-> "",
       sends |-> "json"],
      [method |-> "list_notebooks", api |-> "v3", http |-> "GET",
       prefix |-> "/notebooks.json", arg |-> "", suffix |-> "",
       sends |-> "params"],
      [method |-> "get_notebook", api |-> "v3", http |-> "GET",
       prefix |-> "/notebooks/", arg |-> "notebook_id", suffix |-> ".json",
       sends |-> "none"],
      [method |-> "update_project", api |-> "v3", http |-> "PATCH",
       prefix |-> "/projects/", arg |-> "project_id", suffix |-> ".json",
       sends |-> "json"],
      [method |-> "update_task_list", api |-> "v1", http |-> "PUT",
       prefix |-> "/tasklists/", arg |-> "tasklist_id", suffix |-> ".json",
       sends |-> "json"],
      [method |-> "move_task", api |-> "v3", http |-> "PATCH",
       prefix |-> "/tasks/", arg |-> "task_id", suffix |-> ".json",
       sends |-> "json"],
      [method |-> "list_messages", api |-> "v3", http |-> "GET",
       prefix |-> "/messages.json", arg |-> "", suffix |-> "",
       sends |-> "params"],
      [method |-> "create_message", api |-> "v3", http |-> "POST",
       prefix |-> "/projects/", arg |-> "project_id", suffix |-> "/posts.json",
       sends |-> "json"],
      [method |-> "get_active_timer", api |-> "v3", http |-> "GET",
       prefix |-> "/me/timers.json", arg |-> "", suffix |-> "",
       sends |-> "none"],
      [method |-> "start_timer", api |-> "v3", http |-> "POST",
       prefix |-> "/me/timers.json", arg |-> "", suffix |-> "",
       sends |-> "json"],
      [method |-> "stop_timer", api |-> "v3", http |-> "PUT",
       prefix |-> "/me/timers/", arg |-> "timer_id", suffix |-> "/complete.json",
       sends |-> "json"],
      [method |-> "pause_timer", api |-> "v3", http |-> "PUT",
       prefix |-> "/me/timers/", arg |-> "timer_id", suffix |-> "/pause.json",
       sends |-> "none"],
      [method |-> "resume_timer", api |-> "v3", http |-> "PUT",
       prefix |-> "/me/timers/", arg |-> "timer_id", suffix |-> "/resume.json",
       sends |-> "none"],
      [method |-> "cancel_timer", api |-> "v3", http |-> "DELETE",
       prefix |-> "/me/timers/", arg |-> "timer_id", suffix |-> ".json",
       sends |-> "none"] }


\* the request of the forwarded client methods that teamwork_mcp/client.py
\* does not define: reads of one resource or of one list
ClientRequestsUndefined ==
    { [method |-> "get_project_budget", api |-> "v3", http |-> "GET",
       prefix |-> "/projects/budgets/", arg |-> "budget_id", suffix |-> ".json",
       sends |-> "none"],
      [method |-> "list_project_budgets", api |-> "v3", http |-> "GET",
       prefix |-> "/projects/budgets.json", arg |-> "", suffix |-> "",
       sends |-> "params"],
      [method |-> "get_time_entries", api |-> "v3", http |-> "GET",
       prefix |-> "/time.json", arg |-> "", suffix |-> "",
       sends |-> "params"] }

\* the request of the client method m
RequestOf(m) ==
    CHOOSE q \in ClientRequests \cup ClientRequestsUndefined : q.method = m

\* a query or a payload whose content the model leaves open
Unshaped == [unshaped |-> TRUE]

\* the path of the request q for the arguments a
ForwardPath(q, a) ==
    IF q.arg = "" THEN <<q.prefix>> ELSE <<q.prefix, a[q.arg], q.suffix>>

\* the read operations of the client: its list_ and get_ methods
ReadMethods ==
    { "list_projects", "get_project", "list_tasks", "get_task",
      "list_time_entries", "list_people", "get_me", "get_my_tasks",
      "get_project_summary", "list_task_lists", "list_task_comments",
      "list_tags", "list_milestones", "get_milestone", "list_subtasks",
      "list_notebooks", "get_notebook", "list_messages",
      "get_active_timer" }

\* the other operations: create, update, complete, archive, move, add, log and
\* the control of timers
WriteMethods == ClientMethodsDefined \ ReadMethods

\* every request issued as a POST
ForwardRequestAsPost(c, q, a, outcome) ==
    Request(c, "POST", ForwardPath(q, a),
            IF q.sends = "params" THEN Unshaped ELSE None,
            IF q.sends = "json" THEN Unshaped ELSE None,
            outcome)

\* the request q as the client c issues it for the arguments a
ForwardRequest(c, q, a, outcome) ==
    Request(c, q.http, ForwardPath(q, a),
            IF q.sends = "params" THEN Unshaped ELSE None,
            IF q.sends = "json" THEN Unshaped ELSE None,
            outcome)

RegisteredTools == GatewayTools \cup LegacyTools

\* the registration of the tool named t
Entry(t) == CHOOSE e \in RegisteredTools : e.tool = t

\* the tools whose client method is modelled by actions of its own
DetailedTools ==
    { "list_projects", "teamwork_list_projects", "create_teamwork_task",
      "update_task", "teamwork_update_task", "get_project_summary",
      "get_my_tasks", "create_task_list", "update_task_list",
      "get_project_time_totals", "get_tasklist_time_totals",
      "get_task_time_totals", "estimate_project_budget",
      "update_project", "archive_project", "complete_task",
      "teamwork_complete_task" }

\* two values an argument can have
ForwardValues == {"x", "y"}

\* getattr(client, name) fails
AttributeError(name) == [kind |-> "error", type |-> "AttributeError", msg |-> name]

\* what a client method whose body is outside the model returns or raises
Forwarded(method) == [kind |-> "forwarded", method |-> method]

\* the arguments a of the tool that it passes on
Passed(a, names) == [p \in names \cap DOMAIN a |-> a[p]]

\* the call a tool with the arguments a makes on its client first
FirstCalls(t, a) ==
    LET e == Entry(t)
    IN  IF e.method \in ClientMethods
        THEN <<[method |-> e.method, args |-> Passed(a, e.passes)]>>
        ELSE <<>>

\* the invocations that overlap
Invocations == {1, 2}

\* a session before its tool is invoked
IdleSession ==
    [ pc |-> "idle", hdr |-> EmptyDict, args |-> EmptyDict, client |-> None,
      reqs |-> <<>>, locals |-> EmptyDict, result |-> NoResult ]

----------------------------------------------------------------------------
(* The state machine *)

Init ==
    /\ env \in [domain : EnvDomains, token : EnvTokens]
    /\ pc = "idle"
    /\ tool = "none"
    /\ hdr = EmptyDict
    /\ args = EmptyDict
    /\ client = None
    /\ reqs = <<>>
    /\ locals = EmptyDict
    /\ result = NoResult
    /\ remote = EmptyDict
    /\ calls = <<>>
    /\ inv = [i \in Invocations |-> IdleSession]

\* the tool returns or raises: the caller gets res
Finish(t, h, a, c, rs, res) ==
    /\ tool' = t
    /\ hdr' = h
    /\ args' = a
    /\ client' = c
    /\ reqs' = rs
    /\ result' = res
    /\ pc' = "done"
    /\ calls' = IF c = None THEN <<>> ELSE FirstCalls(t, a)
    /\ UNCHANGED <<env, inv, remote>>

\* a tool of one request: build the client, issue the request, bind the decoded
\* body to the local `response` and return the value shaped from it
OneRequest(t, h, a, gc, method, path, params, json_data, outcome, body, value) ==
    IF ~gc.ok
    THEN Finish(t, h, a, None, <<>>, gc.error) /\ UNCHANGED locals
    ELSE /\ Finish(t, h, a, Some(gc.client),
                   <<Request(gc.client, method, path, params, json_data, outcome)>>,
                   IF outcome = "ok" THEN Ok(value) ELSE RequestError(outcome))
         /\ locals' = IF outcome = "ok" THEN [response |-> body] ELSE locals

\* teamwork_mcp/server.py list_projects tool
ToolListProjects ==
    /\ pc = "idle"
    /\ \E h \in HeaderBags, a \in ListProjectsArgs, o \in Outcomes, body \in ListBodies :
         OneRequest("list_projects", h, a, get_teamwork_client(h, env.domain),
                    "GET", <<"/projects.json">>,
                    [page |-> a.page, pageSize |-> a.page_size], None, o, body,
                    list_projects(body, a.include_details))

\* server.py teamwork_list_projects tool: include_details is not passed
LegacyListProjects ==
    /\ pc = "idle"
    /\ \E h \in HeaderBags, o \in Outcomes, body \in ListBodies :
       \E tok \in extract_bearer_token(h, env.token), dom \in extract_header(h, env.domain) :
         LET a == [page |-> 1, page_size |-> 50]
         IN  OneRequest("teamwork_list_projects", h, a, _get_client(tok, dom),
                        "GET", <<"/projects.json">>,
                        [page |-> a.page, pageSize |-> a.page_size], None, o, body,
                        list_projects(body, FALSE))

\* a tool of one request that validates its arguments first: v is the outcome
\* of the client method up to its request
Validated(t, h, a, gc, v, method, path, outcome, body) ==
    /\ IF ~gc.ok
       THEN Finish(t, h, a, None, <<>>, gc.error)
       ELSE IF ~v.ok
       THEN Finish(t, h, a, Some(gc.client), <<>>, v.error)
       ELSE Finish(t, h, a, Some(gc.client),
                   <<Request(gc.client, method, path, None, v.payload, outcome)>>,
                   IF outcome = "ok" THEN Ok(body) ELSE RequestError(outcome))
    /\ UNCHANGED locals

\* teamwork_mcp/server.py create_teamwork_task tool
ToolCreateTask ==
    /\ pc = "idle"
    /\ \E h \in HeaderBags, a \in CreateTaskArgs, o \in Outcomes :
         Validated("create_teamwork_task", h, a, get_teamwork_client(h, env.domain),
                   create_task(a), "POST",
                   <<"/tasklists/", a.tasklist_id, "/tasks.json">>, o, TaskBody)

\* teamwork_mcp/server.py update_task tool
ToolUpdateTask ==
    /\ pc = "idle"
    /\ \E h \in HeaderBags, a \in UpdateTaskArgs, o \in Outcomes :
         Validated("update_task", h, a, get_teamwork_client(h, env.domain),
                   update_task(a), "PATCH",
                   <<"/tasks/", a.task_id, ".json">>, o, TaskBody)

\* server.py teamwork_update_task tool
LegacyUpdateTask ==
    /\ pc = "idle"
    /\ \E h \in HeaderBags, a \in LegacyUpdateTaskArgs, o \in Outcomes :
       \E tok \in extract_bearer_token(h, env.token), dom \in extract_header(h, env.domain) :
         Validated("teamwork_update_task", h, a, _get_client(tok, dom),
                   update_task(a), "PATCH",
                   <<"/tasks/", a.task_id, ".json">>, o, TaskBody)

\* teamwork_mcp/server.py update_project tool
ToolUpdateProject ==
    /\ pc = "idle"
    /\ \E h \in HeaderBags, a \in UpdateProjectArgs, o \in Outcomes :
         Validated("update_project", h, a, get_teamwork_client(h, env.domain),
                   update_project(a), "PATCH",
                   <<"/projects/", a.project_id, ".json">>, o, ProjectBody)

\* teamwork_mcp/server.py archive_project tool
ToolArchiveProject ==
    /\ pc = "idle"
    /\ \E h \in HeaderBags, a \in ArchiveProjectArgs, o \in Outcomes :
         Validated("archive_project", h, a, get_teamwork_client(h, env.domain),
                   archive_project(a), "PATCH",
                   <<"/projects/", a.project_id, ".json">>, o, ProjectBody)

\* teamwork_mcp/server.py complete_task tool
ToolCompleteTask ==
    /\ pc = "idle"
    /\ \E h \in HeaderBags, a \in CompleteTaskArgs, o \in Outcomes :
         Validated("complete_task", h, a, get_teamwork_client(h, env.domain),
                   complete_task(a), "PATCH",
                   <<"/tasks/", a.task_id, ".json">>, o, TaskBody)

\* server.py teamwork_complete_task tool
LegacyCompleteTask ==
    /\ pc = "idle"
    /\ \E h \in HeaderBags, a \in CompleteTaskArgs, o \in Outcomes :
       \E tok \in extract_bearer_token(h, env.token), dom \in extract_header(h, env.domain) :
         Validated("teamwork_complete_task", h, a, _get_client(tok, dom),
                   complete_task(a), "PATCH",
                   <<"/tasks/", a.task_id, ".json">>, o, TaskBody)

\* a tool of one v1 request: build the client, validate, then _request_v1
ValidatedV1(t, h, a, gc, v, method, path, resp) ==
    IF ~gc.ok
    THEN Finish(t, h, a, None, <<>>, gc.error) /\ UNCHANGED locals
    ELSE IF ~v.ok
    THEN Finish(t, h, a, Some(gc.client), <<>>, v.error) /\ UNCHANGED locals
    ELSE /\ Finish(t, h, a, Some(gc.client),
                   V1Attempts(gc.client, method, path, v.payload, resp),
                   _request_v1(resp))
         /\ locals' = IF resp.kind = "response" THEN [response |-> resp] ELSE locals

\* teamwork_mcp/server.py create_task_list tool
ToolCreateTaskList ==
    /\ pc = "idle"
    /\ \E h \in HeaderBags, a \in CreateTaskListArgs, resp \in V1Responses :
         ValidatedV1("create_task_list", h, a, get_teamwork_client(h, env.domain),
                     create_task_list(a), "POST",
                     <<"/projects/", a.project_id, "/tasklists.json">>, resp)

\* teamwork_mcp/server.py update_task_list tool
ToolUpdateTaskList ==
    /\ pc = "idle"
    /\ \E h \in HeaderBags, a \in UpdateTaskListArgs, resp \in V1Responses :
         ValidatedV1("update_task_list", h, a, get_teamwork_client(h, env.domain),
                     update_task_list(a), "PUT",
                     <<"/tasklists/", a.tasklist_id, ".json">>, resp)

\* the first line of a tool of several requests: client = get_teamwork_client(...)
Begin(t, a, first) ==
    /\ pc = "idle"
    /\ \E h \in HeaderBags :
         LET gc == get_teamwork_client(h, env.domain)
         IN  IF ~gc.ok
             THEN Finish(t, h, a, None, <<>>, gc.error) /\ UNCHANGED locals
             ELSE /\ tool' = t
                  /\ hdr' = h
                  /\ args' = a
                  /\ client' = Some(gc.client)
                  /\ reqs' = <<>>
                  /\ pc' = first
                  /\ calls' = FirstCalls(t, a)
                  /\ UNCHANGED <<env, inv, remote, locals, result>>

\* Call that swallows the error of the request and goes on
CallContinuing(at, path, params, outcome, name, value, next) ==
    /\ pc = at
    /\ reqs' = Append(reqs, Request(client[1], "GET", path, params, None, outcome))
    /\ locals' = locals @@ (name :> value)
    /\ pc' = next
    /\ UNCHANGED <<env, inv, remote, tool, hdr, args, client, result, calls>>

\* one request of a running tool that is not its last: the decoded body is
\* bound to a local, or the error of the request ends the tool
Call(at, path, params, outcome, name, value, next) ==
    /\ pc = at
    /\ reqs' = Append(reqs, Request(client[1], "GET", path, params, None, outcome))
    /\ IF outcome = "ok"
       THEN /\ locals' = locals @@ (name :> value)
            /\ pc' = next
            /\ UNCHANGED result
       ELSE /\ result' = RequestError(outcome)
            /\ pc' = "done"
            /\ UNCHANGED locals
    /\ UNCHANGED <<env, inv, remote, tool, hdr, args, client, calls>>

\* the last request of a running tool and the rest of the tool: it returns
\* value, or raises; the action that uses it says what becomes of `calls`
LastCall(at, path, params, outcome, res) ==
    /\ pc = at
    /\ reqs' = Append(reqs, Request(client[1], "GET", path, params, None, outcome))
    /\ result' = IF outcome = "ok" THEN res ELSE RequestError(outcome)
    /\ pc' = "done"
    /\ UNCHANGED <<env, inv, remote, tool, hdr, args, client, locals>>

\* teamwork_mcp/server.py get_project_summary tool
ToolSummaryBegin ==
    \E p \in ProjectIds :
        Begin("get_project_summary", [project_id |-> p], "summary_project")

\* project = self._request("GET", f"/projects/{project_id}.json")
SummaryGetProject ==
    \E o \in Outcomes, body \in ProjectBodies :
        Call("summary_project", <<"/projects/", args.project_id, ".json">>, None,
             o, "project", body, "summary_total")

\* all_tasks = self._request(...); total_count = ...
SummaryTotal ==
    \E o \in Outcomes, body \in CountBodies(MaxTotal) :
        Call("summary_total", <<"/tasks.json">>,
             [projectId |-> args.project_id, pageSize |-> 1],
             o, "total_count", CountOf(body), "summary_overdue")

\* the overdue query without its filter
SummaryOverdueUnfiltered ==
    \E o \in Outcomes, body \in CountBodies(MaxOverdue) :
        Call("summary_overdue", <<"/tasks.json">>,
             [projectId |-> args.project_id, pageSize |-> 1],
             o, "overdue_count", CountOf(body), "summary_thisweek")

\* overdue_tasks = self._request(...); overdue_count = ...
SummaryOverdue ==
    \E o \in Outcomes, body \in CountBodies(MaxOverdue) :
        Call("summary_overdue", <<"/tasks.json">>,
             [projectId |-> args.project_id, filter |-> "overdue", pageSize |-> 1],
             o, "overdue_count", CountOf(body), "summary_thisweek")

\* the raised error, or the returned summary
SummaryResult(project, total_count, overdue_count, thisweek_count) ==
    LET health == Health(total_count, overdue_count)
    IN  IF health = "ZeroDivisionError"
        THEN [kind |-> "error", type |-> "ZeroDivisionError", msg |-> "division by zero"]
        ELSE Ok(Summary(project, total_count, overdue_count, thisweek_count, health))

\* thisweek_tasks = self._request(...); thisweek_count = ...; the health
\* indicator and the summary
SummaryThisWeek ==
    \E o \in Outcomes, body \in CountBodies(MaxThisWeek) :
        /\ pc = "summary_thisweek"
        /\ reqs' = Append(reqs,
                          Request(client[1], "GET", <<"/tasks.json">>,
                                  [projectId |-> args.project_id,
                                   filter |-> "thisweek", pageSize |-> 1],
                                  None, o))
        /\ IF o = "ok"
           THEN /\ locals' = locals @@ ("thisweek_count" :> CountOf(body))
                /\ result' = SummaryResult(locals.project, locals.total_count,
                                           locals.overdue_count, CountOf(body))
           ELSE /\ result' = RequestError(o)
                /\ UNCHANGED locals
        /\ pc' = "done"
        /\ UNCHANGED <<env, inv, remote, tool, hdr, args, client, calls>>

\* the tasks of the project a summary reads, as the remote holds them: how
\* many there are and how many of them are overdue; `changed` tells whether
\* a task changed between the total query and the overdue query
TaskCounts ==
    { r \in [total : 0..MaxRemoteTasks, overdue : 0..MaxRemoteTasks,
             changed : {FALSE}] : r.overdue <= r.total }

\* the answer of the remote r to GET /tasks.json with the filter f and pageSize 1
CountAnswer(r, f) ==
    [meta |-> [page |-> [count |-> IF f = "overdue" THEN r.overdue ELSE r.total,
                         pageSize |-> 1]]]

\* the steps of get_project_summary
SummaryPcs ==
    {"summary_project", "summary_total", "summary_overdue", "summary_thisweek"}

\* get_project_summary tool on a project whose tasks the remote holds
ObservedSummaryBegin ==
    /\ pc = "idle"
    /\ \E h \in HeaderBags, p \in ProjectIds, r \in TaskCounts :
         LET gc == get_teamwork_client(h, env.domain)
             a == [project_id |-> p]
         IN  IF ~gc.ok
             THEN Finish("get_project_summary", h, a, None, <<>>, gc.error)
                  /\ UNCHANGED locals
             ELSE /\ tool' = "get_project_summary"
                  /\ hdr' = h
                  /\ args' = a
                  /\ client' = Some(gc.client)
                  /\ reqs' = <<>>
                  /\ pc' = "summary_project"
                  /\ calls' = FirstCalls("get_project_summary", a)
                  /\ remote' = r
                  /\ UNCHANGED <<env, inv, locals, result>>

\* all_tasks = self._request(...): the remote answers with its count of tasks
ObservedTotal ==
    \E o \in Outcomes :
        Call("summary_total", <<"/tasks.json">>,
             [projectId |-> args.project_id, pageSize |-> 1],
             o, "total_count", CountOf(CountAnswer(remote, "")), "summary_overdue")

\* overdue_tasks = self._request(...): the remote answers with its count of
\* overdue tasks
ObservedOverdue ==
    \E o \in Outcomes :
        Call("summary_overdue", <<"/tasks.json">>,
             [projectId |-> args.project_id, filter |-> "overdue", pageSize |-> 1],
             o, "overdue_count", CountOf(CountAnswer(remote, "overdue")),
             "summary_thisweek")

\* another caller of the remote changes the tasks while the summary runs
RemoteChange(total, overdue) ==
    /\ pc \in SummaryPcs
    /\ remote' = [total |-> total, overdue |-> overdue,
                  changed |-> remote.changed \/ pc = "summary_overdue"]
    /\ UNCHANGED <<env, inv, pc, tool, hdr, args, client, reqs, locals, result,
                   calls>>

\* a task is created, overdue from the start or not
RemoteCreateTask ==
    /\ pc \in SummaryPcs
    /\ remote.total < MaxRemoteTasks
    /\ \E late \in 0..1 : RemoteChange(remote.total + 1, remote.overdue + late)

\* a task is completed: it is overdue no more, nor listed as an open task
RemoteCompleteTask ==
    /\ pc \in SummaryPcs
    /\ remote.total > 0
    /\ \E late \in 0..1 :
         /\ late <= remote.overdue
         /\ remote.overdue - late <= remote.total - 1
         /\ RemoteChange(remote.total - 1, remote.overdue - late)

\* a task is deleted
RemoteDeleteTask ==
    /\ pc \in SummaryPcs
    /\ remote.total > 0
    /\ \E late \in 0..1 :
         /\ late <= remote.overdue
         /\ remote.overdue - late <= remote.total - 1
         /\ RemoteChange(remote.total - 1, remote.overdue - late)

\* teamwork_mcp/server.py get_my_tasks tool
ToolMyTasksBegin ==
    \E a \in MyTasksArgs : Begin("get_my_tasks", a, "mytasks_me")

\* me = client.get_me()
MyTasksGetMe ==
    \E o \in Outcomes, body \in MeBodies :
        Call("mytasks_me", <<"/me.json">>, None, o, "me", body, "mytasks_query")

\* user_id = ...; return client.get_my_tasks(str(user_id), date_filter, include_completed)
MyTasksQuery ==
    \E o \in Outcomes :
        /\ LastCall("mytasks_query", <<"/tasks.json">>,
                    MyTasksParams(Str(UserIdOf(locals.me)), args.date_filter,
                                  args.include_completed, 100),
                    o, Ok(TasksBody))
        /\ calls' = Append(calls,
                           [method |-> "get_my_tasks",
                            args |-> [user_id |-> Str(UserIdOf(locals.me)),
                                      date_filter |-> args.date_filter,
                                      include_completed |-> args.include_completed]])

\* get_project_time_totals and get_tasklist_time_totals tools: the client is
\* built and the totals start at 0
ToolTimeTotalsBegin ==
    /\ pc = "idle"
    /\ \E h \in HeaderBags, sc \in PagedScopes, r \in TaskRemotes :
         LET gc == get_teamwork_client(h, env.domain)
             a == (sc.key :> sc.id)
         IN  IF ~gc.ok
             THEN Finish(sc.tool, h, a, None, <<>>, gc.error) /\ UNCHANGED locals
             ELSE /\ tool' = sc.tool /\ hdr' = h /\ args' = a
                  /\ client' = Some(gc.client) /\ reqs' = <<>>
                  /\ remote' = r
                  /\ locals' = [path |-> sc.path, page |-> 1,
                                estimated |-> 0, logged |-> 0]
                  /\ pc' = "totals_page"
                  /\ calls' = FirstCalls(sc.tool, a)
                  /\ UNCHANGED <<env, inv, result>>

\* estimate_project_budget tool: the client is built
ToolEstimateBudgetBegin ==
    /\ pc = "idle"
    /\ \E h \in HeaderBags, r \in TaskRemotes :
         LET gc == get_teamwork_client(h, env.domain)
             a == [project_id |-> "101"]
         IN  IF ~gc.ok
             THEN Finish("estimate_project_budget", h, a, None, <<>>, gc.error)
                  /\ UNCHANGED locals
             ELSE /\ tool' = "estimate_project_budget" /\ hdr' = h /\ args' = a
                  /\ client' = Some(gc.client) /\ reqs' = <<>>
                  /\ remote' = r
                  /\ locals' = [path |-> <<"/projects/", "101", "/tasks.json">>,
                                page |-> 1, estimated |-> 0, logged |-> 0]
                  /\ pc' = "budget_project"
                  /\ calls' = FirstCalls("estimate_project_budget", a)
                  /\ UNCHANGED <<env, inv, result>>

\* estimate_project_budget: the project is fetched for its name and budgets
BudgetGetProject ==
    \E o \in Outcomes, body \in BudgetProjectBodies :
        Call("budget_project", <<"/projects/", args.project_id, ".json">>, None, o,
             "project", body.project, "totals_page")

\* what the tool returns once the last page is summed
TotalsResult(estimated, logged) ==
    IF tool = "estimate_project_budget"
    THEN BudgetEstimate(args.project_id, locals.project, estimated, logged)
    ELSE LET key == CHOOSE k \in DOMAIN args : TRUE
         IN  TimeTotals(key, args[key], estimated, logged)

\* TotalsPage that returns after the first page whatever the remote reports
TotalsPageFirstOnly ==
    /\ pc = "totals_page"
    /\ \E o \in Outcomes :
         LET body == TasksPage(remote, locals.page)
             estimated == locals.estimated + SumOf(body.tasks, "estimated_minutes")
             logged == locals.logged + SumOf(body.tasks, "logged_minutes")
         IN  /\ reqs' = Append(reqs, Request(client[1], "GET", locals.path,
                                             [page |-> locals.page], None, o))
             /\ IF o # "ok"
                THEN /\ result' = RequestError(o) /\ pc' = "done" /\ UNCHANGED locals
                ELSE /\ locals' = [locals EXCEPT !.estimated = estimated,
                                                 !.logged = logged]
                     /\ result' = Ok(TotalsResult(estimated, logged))
                     /\ pc' = "done"
    /\ UNCHANGED <<env, inv, remote, tool, hdr, args, client, calls>>

\* one turn of the pagination loop: fetch page `page`, add its tasks to the
\* totals, and go on to the next page while the remote reports more
TotalsPage ==
    /\ pc = "totals_page"
    /\ \E o \in Outcomes :
         LET body == TasksPage(remote, locals.page)
             estimated == locals.estimated + SumOf(body.tasks, "estimated_minutes")
             logged == locals.logged + SumOf(body.tasks, "logged_minutes")
         IN  /\ reqs' = Append(reqs, Request(client[1], "GET", locals.path,
                                             [page |-> locals.page], None, o))
             /\ IF o # "ok"
                THEN /\ result' = RequestError(o) /\ pc' = "done" /\ UNCHANGED locals
                ELSE IF body.meta.page.hasMore
                THEN /\ locals' = [locals EXCEPT !.page = @ + 1,
                                                 !.estimated = estimated,
                                                 !.logged = logged]
                     /\ UNCHANGED <<pc, result>>
                ELSE /\ locals' = [locals EXCEPT !.estimated = estimated,
                                                 !.logged = logged]
                     /\ result' = Ok(TotalsResult(estimated, logged))
                     /\ pc' = "done"
    /\ UNCHANGED <<env, inv, remote, tool, hdr, args, client, calls>>

\* get_task_time_totals tool: one task, one request
ToolTaskTimeTotals ==
    /\ pc = "idle"
    /\ \E h \in HeaderBags, task \in TimeTasks, o \in Outcomes :
         OneRequest("get_task_time_totals", h, [task_id |-> "4001"],
                    get_teamwork_client(h, env.domain),
                    "GET", <<"/tasks/", "4001", ".json">>, None, None, o,
                    [task |-> task],
                    TimeTotals("task_id", "4001", task.estimated_minutes,
                               task.logged_minutes))

\* a tool of teamwork_mcp/server.py that only builds the client and returns
\* what one client method returns.  The method issues its one request; what it
\* makes of its arguments for the query or the payload is outside the model
ToolForward ==
    /\ pc = "idle"
    /\ \E e \in {g \in GatewayTools : g.tool \notin DetailedTools}, h \in HeaderBags :
       \E a \in [e.params -> ForwardValues], o \in Outcomes :
         LET gc == get_teamwork_client(h, env.domain)
         IN  IF ~gc.ok
             THEN Finish(e.tool, h, a, None, <<>>, gc.error)
             ELSE IF e.method \notin ClientMethods
             THEN Finish(e.tool, h, a, Some(gc.client), <<>>, AttributeError(e.method))
             ELSE Finish(e.tool, h, a, Some(gc.client),
                         <<ForwardRequest(gc.client, RequestOf(e.method), a, o)>>,
                         IF o = "ok" THEN Forwarded(e.method) ELSE RequestError(o))
    /\ UNCHANGED locals

\* the same for a tool of the legacy server.py
LegacyForward ==
    /\ pc = "idle"
    /\ \E e \in {g \in LegacyTools : g.tool \notin DetailedTools}, h \in HeaderBags :
       \E a \in [e.params -> ForwardValues], o \in Outcomes :
       \E tok \in extract_bearer_token(h, env.token), dom \in extract_header(h, env.domain) :
         LET gc == _get_client(tok, dom)
         IN  IF ~gc.ok
             THEN Finish(e.tool, h, a, None, <<>>, gc.error)
             ELSE IF e.method \notin ClientMethods
             THEN Finish(e.tool, h, a, Some(gc.client), <<>>, AttributeError(e.method))
             ELSE Finish(e.tool, h, a, Some(gc.client),
                         <<ForwardRequest(gc.client, RequestOf(e.method), a, o)>>,
                         IF o = "ok" THEN Forwarded(e.method) ELSE RequestError(o))
    /\ UNCHANGED locals

\* header bags of two callers and of a caller without a token
PairHeaderBags ==
    { ("authorization" :> [scheme |-> "Bearer", token |-> "tokA"])
        @@ ("x-teamwork-domain" :> "acme.teamwork.com"),
      ("authorization" :> [scheme |-> "Bearer", token |-> "tokB"])
        @@ ("x-teamwork-domain" :> "beta.teamwork.com"),
      [authorization |-> [scheme |-> "Bearer", token |-> "tokB"]],
      EmptyDict }

\* decoded bodies of GET /me.json for two users
PairMeBodies == { [person |-> [id |-> 7]], [person |-> [id |-> 8]] }

PairArgs == { a \in MyTasksArgs : a.date_filter = "overdue" }

\* the variables of the single invocation, which the overlapping ones leave alone
single == <<pc, tool, hdr, args, client, reqs, locals, result, remote, calls>>

\* the client every invocation finds: the one that was built first
ClientOfShared(i) ==
    LET holders == {j \in Invocations : inv[j].client # None}
    IN  inv[CHOOSE j \in holders : \A k \in holders : j <= k].client[1]

\* the local `client` of the tool function running invocation i
ClientOf(i) == inv[i].client[1]

\* invocation i of the get_my_tasks tool starts: client = get_teamwork_client(...)
PairBegin(i) ==
    /\ inv[i].pc = "idle"
    /\ \E h \in PairHeaderBags, a \in PairArgs :
         LET gc == get_teamwork_client(h, env.domain)
         IN  inv' = [inv EXCEPT ![i] =
                       IF ~gc.ok
                       THEN [IdleSession EXCEPT !.pc = "done", !.hdr = h, !.args = a,
                                                !.result = gc.error]
                       ELSE [IdleSession EXCEPT !.pc = "mytasks_me", !.hdr = h,
                                                !.args = a,
                                                !.client = Some(gc.client)]]
    /\ UNCHANGED <<env, single>>

\* invocation i: me = client.get_me()
PairGetMe(i) ==
    /\ inv[i].pc = "mytasks_me"
    /\ \E o \in Outcomes, body \in PairMeBodies :
         LET rq == Request(ClientOf(i), "GET", <<"/me.json">>, None, None, o)
         IN  inv' = [inv EXCEPT ![i] =
                       IF o = "ok"
                       THEN [@ EXCEPT !.reqs = Append(@, rq),
                                      !.locals = [me |-> body],
                                      !.pc = "mytasks_query"]
                       ELSE [@ EXCEPT !.reqs = Append(@, rq),
                                      !.result = RequestError(o),
                                      !.pc = "done"]]
    /\ UNCHANGED <<env, single>>

\* invocation i: return client.get_my_tasks(str(user_id), date_filter, include_completed)
PairQuery(i) ==
    /\ inv[i].pc = "mytasks_query"
    /\ \E o \in Outcomes :
         LET rq == Request(ClientOf(i), "GET", <<"/tasks.json">>,
                           MyTasksParams(Str(UserIdOf(inv[i].locals.me)),
                                         inv[i].args.date_filter,
                                         inv[i].args.include_completed, 100),
                           None, o)
         IN  inv' = [inv EXCEPT ![i] =
                       [@ EXCEPT !.reqs = Append(@, rq),
                                 !.result = IF o = "ok" THEN Ok(TasksBody)
                                            ELSE RequestError(o),
                                 !.pc = "done"]]
    /\ UNCHANGED <<env, single>>

\* invocation i is over
PairReturn(i) ==
    /\ inv[i].pc = "done"
    /\ inv' = [inv EXCEPT ![i] = IdleSession]
    /\ UNCHANGED <<env, single>>

\* the invocation is over; the session object is discarded
Return ==
    /\ pc = "done"
    /\ pc' = "idle"
    /\ tool' = "none"
    /\ hdr' = EmptyDict
    /\ args' = EmptyDict
    /\ client' = None
    /\ reqs' = <<>>
    /\ locals' = EmptyDict
    /\ result' = NoResult
    /\ remote' = EmptyDict
    /\ calls' = <<>>
    /\ UNCHANGED <<env, inv>>

Next ==
    \/ ToolListProjects
    \/ LegacyListProjects
    \/ ToolCreateTask
    \/ ToolUpdateTask
    \/ LegacyUpdateTask
    \/ ToolUpdateProject
    \/ ToolArchiveProject
    \/ ToolCompleteTask
    \/ LegacyCompleteTask
    \/ ToolSummaryBegin
    \/ SummaryGetProject
    \/ SummaryTotal
    \/ SummaryOverdue
    \/ SummaryThisWeek
    \/ ToolMyTasksBegin
    \/ MyTasksGetMe
    \/ MyTasksQuery
    \/ ToolCreateTaskList
    \/ ToolUpdateTaskList
    \/ ToolTimeTotalsBegin
    \/ ToolEstimateBudgetBegin
    \/ BudgetGetProject
    \/ TotalsPage
    \/ ToolTaskTimeTotals
    \/ ToolForward
    \/ LegacyForward
    \/ Return

Spec == Init /\ [][Next]_vars

\* the project-list tools alone
NextList ==
    \/ ToolListProjects
    \/ LegacyListProjects
    \/ Return

SpecList == Init /\ [][NextList]_vars

\* the task-writing tools alone
NextTasks ==
    \/ ToolCreateTask
    \/ ToolUpdateTask
    \/ LegacyUpdateTask
    \/ Return

SpecTasks == Init /\ [][NextTasks]_vars

\* the tools of several requests alone
NextSeq ==
    \/ ToolSummaryBegin
    \/ SummaryGetProject
    \/ SummaryTotal
    \/ SummaryOverdue
    \/ SummaryThisWeek
    \/ ToolMyTasksBegin
    \/ MyTasksGetMe
    \/ MyTasksQuery
    \/ Return

SpecSeq == Init /\ [][NextSeq]_vars

\* the tools of the v1 API alone
NextV1 ==
    \/ ToolCreateTaskList
    \/ ToolUpdateTaskList
    \/ Return

SpecV1 == Init /\ [][NextV1]_vars

\* the time-totals tools alone
NextTotals ==
    \/ ToolTimeTotalsBegin
    \/ ToolEstimateBudgetBegin
    \/ BudgetGetProject
    \/ TotalsPage
    \/ ToolTaskTimeTotals
    \/ Return

SpecTotals == Init /\ [][NextTotals]_vars

\* every tool up to the first call it makes on its client, and get_my_tasks
NextDispatch ==
    \/ ToolForward
    \/ LegacyForward
    \/ ToolListProjects
    \/ ToolCreateTaskList
    \/ ToolUpdateTaskList
    \/ ToolTaskTimeTotals
    \/ ToolUpdateProject
    \/ ToolArchiveProject
    \/ ToolCompleteTask
    \/ LegacyCompleteTask
    \/ ToolMyTasksBegin
    \/ MyTasksGetMe
    \/ MyTasksQuery
    \/ Return

SpecDispatch == Init /\ [][NextDispatch]_vars

\* the tools that update a project or a task list, and the convenience tools
NextUpdates ==
    \/ ToolUpdateProject
    \/ ToolArchiveProject
    \/ ToolCompleteTask
    \/ LegacyCompleteTask
    \/ ToolUpdateTaskList
    \/ Return

SpecUpdates == Init /\ [][NextUpdates]_vars

\* get_project_summary while other callers change the tasks of the project
NextObserved ==
    \/ ObservedSummaryBegin
    \/ SummaryGetProject
    \/ ObservedTotal
    \/ ObservedOverdue
    \/ SummaryThisWeek
    \/ RemoteCreateTask
    \/ RemoteCompleteTask
    \/ RemoteDeleteTask
    \/ Return

SpecObserved == Init /\ [][NextObserved]_vars

\* two invocations of the get_my_tasks tool, their steps interleaved
NextPair ==
    \/ \E i \in Invocations : PairBegin(i)
    \/ \E i \in Invocations : PairGetMe(i)
    \/ \E i \in Invocations : PairQuery(i)
    \/ \E i \in Invocations : PairReturn(i)

SpecPair == Init /\ [][NextPair]_vars

\* the pagination loop goes on whenever it can
SpecTotalsFair == SpecTotals /\ WF_vars(TotalsPage) /\ WF_vars(BudgetGetProject)

----------------------------------------------------------------------------
(* Properties *)

Done(t) == pc = "done" /\ tool = t

\* get_project_summary has returned a summary
SummaryReturned == Done("get_project_summary") /\ result.kind = "ok"

\* all four requests of get_project_summary were answered
SummaryAnswered ==
    /\ Done("get_project_summary")
    /\ Len(reqs) = 4
    /\ \A i \in 1..4 : reqs[i].outcome = "ok"

\* C1, as stated: the health is "at-risk" whenever the overdue count read is
\* >= 3 or overdue/total >= 0.10 (a ratio only exists for total > 0), and
\* "on-track" otherwise, for every combination of counts.
C1_HealthAsStated ==
    SummaryReturned =>
        result.value.health =
            IF \/ locals.overdue_count >= 3
               \/ (locals.total_count > 0
                     /\ 10 * locals.overdue_count >= locals.total_count)
            THEN "at-risk" ELSE "on-track"

\* C1, amended: with a total of 0 the health is "on-track"; with a total > 0
\* it is "at-risk" exactly when overdue >= 3 or overdue/total >= 0.10.
C1_HealthRule ==
    SummaryReturned =>
        result.value.health =
            IF locals.total_count = 0 THEN "on-track"
            ELSE IF \/ locals.overdue_count >= 3
                    \/ 10 * locals.overdue_count >= locals.total_count
            THEN "at-risk" ELSE "on-track"

\* the 10% boundary: 1 overdue task of 10
C1_Witness ==
    /\ SummaryReturned
    /\ locals.total_count = 10
    /\ locals.overdue_count = 1
    /\ result.value.health = "at-risk"

\* C2: when the total count read is 0 the summary is returned (no division by
\* zero is raised) with health "on-track", whatever the other counts and the
\* project fields are.
C2_ZeroTasksOnTrack ==
    (SummaryAnswered /\ locals.total_count = 0) =>
        /\ result.kind = "ok"
        /\ result.value.health = "on-track"

\* no tasks, yet overdue and due-this-week counts above 0 and a long description
C2_Witness ==
    /\ SummaryAnswered
    /\ locals.total_count = 0
    /\ locals.overdue_count = 4
    /\ result.kind = "ok"
    /\ result.value.taskStats.dueThisWeek = 1
    /\ Len(result.value.project.description) = 200

\* the project of the summary carries a description string
HasDescription ==
    /\ "project" \in DOMAIN locals.project
    /\ "description" \in DOMAIN locals.project.project
    /\ locals.project.project.description # None

SourceDescription == locals.project.project.description[1]

\* C3: a description longer than 200 characters comes back as exactly 200
\* characters, the first 197 those of the source and the last 3 "...";
\* a description of at most 200 characters comes back unchanged.
C3_DescriptionTruncation ==
    (SummaryReturned /\ HasDescription) =>
        LET src == SourceDescription
            out == result.value.project.description
        IN  IF Len(src) > 200
            THEN /\ Len(out) = 200
                 /\ \A i \in 1..197 : out[i] = src[i]
                 /\ \A i \in 198..200 : out[i] = "."
            ELSE out = src

\* a description of 201 characters was cut
C3_Witness ==
    /\ SummaryReturned
    /\ HasDescription
    /\ Len(SourceDescription) = 201
    /\ SourceDescription[201] = "c"
    /\ Len(result.value.project.description) = 200

\* create_task or update_task of the client was called
TaskMethodCalled ==
    /\ pc = "done"
    /\ tool \in {"create_teamwork_task", "update_task", "teamwork_update_task"}
    /\ client # None

ValidationError == result.kind = "error" /\ result.type = "ValueError"

\* the other arguments pass the checks made before the progress check
EstimateAccepted == ~Has(args, "estimated_minutes") \/ args.estimated_minutes > 0
TasklistAccepted == ~Has(args, "tasklist_id") \/ args.tasklist_id = "55"

\* C4: with a progress outside 0..100 create_task and update_task raise a
\* validation error and issue no request; with a progress in 0..100 the
\* progress check does not fail, and the request (issued once the other
\* arguments are accepted too) carries that progress.
C4_ProgressValidation ==
    (TaskMethodCalled /\ Has(args, "progress")) =>
        IF args.progress < 0 \/ args.progress > 100
        THEN ValidationError /\ reqs = <<>>
        ELSE /\ ~(ValidationError /\ result.msg = "progress must be between 0 and 100")
             /\ (EstimateAccepted /\ TasklistAccepted) =>
                    /\ Len(reqs) = 1
                    /\ reqs[1].json.task.progress = args.progress

\* update_task with progress 100 sent its PATCH
C4_Witness ==
    /\ TaskMethodCalled
    /\ tool = "update_task"
    /\ Has(args, "progress")
    /\ args.progress = 100
    /\ Len(reqs) = 1
    /\ reqs[1].method = "PATCH"
    /\ reqs[1].json.task.progress = 100

\* C5: with estimated_minutes supplied and <= 0 create_task and update_task
\* raise a validation error and issue no request; with estimated_minutes
\* omitted the estimate check does not fail and no estimatedMinutes is sent.
C5_EstimateValidation ==
    TaskMethodCalled =>
        IF Has(args, "estimated_minutes")
        THEN args.estimated_minutes <= 0 => (ValidationError /\ reqs = <<>>)
        ELSE /\ ~(ValidationError
                    /\ result.msg = "estimated_minutes must be a positive value")
             /\ \A i \in 1..Len(reqs) :
                    "estimatedMinutes" \notin DOMAIN reqs[i].json.task

\* create_task with estimated_minutes = 0 was refused
C5_Witness ==
    /\ TaskMethodCalled
    /\ tool = "create_teamwork_task"
    /\ Has(args, "estimated_minutes")
    /\ args.estimated_minutes = 0
    /\ args.tasklist_id = "55"
    /\ ValidationError
    /\ reqs = <<>>

\* list_projects has returned in minimal mode
MinimalListReturned ==
    /\ pc = "done"
    /\ result.kind = "ok"
    /\ \/ tool = "teamwork_list_projects"
       \/ tool = "list_projects" /\ ~args.include_details

RemoteList == GetOr(locals.response, "projects", <<>>)

\* C6: in minimal mode every entry carries timeBudget and financialBudget, and
\* financialBudget is non-null when the remote project has a financial budget.
C6_MinimalKeepsBudgets ==
    MinimalListReturned =>
        /\ Len(result.value.projects) = Len(RemoteList)
        /\ \A i \in 1..Len(RemoteList) :
              /\ {"timeBudget", "financialBudget"} \subseteq DOMAIN result.value.projects[i]
              /\ Get(RemoteList[i], "financialBudget") # None
                    => Get(result.value.projects[i], "financialBudget") # None

LegacyTool == tool \in {e.tool : e \in LegacyTools}

\* the bearer token of the inbound headers, None when they carry none
HeaderToken == extract_token_from_headers(hdr)

\* the inbound headers give an installation domain
HeaderDomainGiven ==
    "x-teamwork-domain" \in DOMAIN hdr /\ hdr["x-teamwork-domain"] # ""

\* the default domain of the running server, "" when there is none
DefaultDomain ==
    IF LegacyTool
    THEN IF env.domain # "" THEN env.domain ELSE LegacyDefaultDomain
    ELSE env.domain

NoDomainAvailable == ~HeaderDomainGiven /\ DefaultDomain = ""

\* the invocation fails with the error of the session construction and has
\* issued no request
FailsBeforeAnyRequest ==
    /\ pc = "done"
    /\ result.kind = "error"
    /\ result.type \in {"ValueError", "AuthenticationError"}
    /\ client = None
    /\ reqs = <<>>

C9_AsStated ==
    client # None =>
        /\ HeaderDomainGiven
              => client[1].installation_domain = hdr["x-teamwork-domain"]
        /\ (~HeaderDomainGiven /\ client[1].installation_domain = DefaultDomain)
              => "x-teamwork-domain" \notin DOMAIN hdr

\* C9, amended: the client is bound to the domain of the header whenever the
\* header is present and non-empty, to the default domain when the header is
\* absent, and in get_teamwork_client also when the header is present but empty.
C9_DomainBinding ==
    client # None =>
        /\ HeaderDomainGiven
              => client[1].installation_domain = hdr["x-teamwork-domain"]
        /\ "x-teamwork-domain" \notin DOMAIN hdr
              => client[1].installation_domain = DefaultDomain
        /\ (~LegacyTool /\ ~HeaderDomainGiven)
              => client[1].installation_domain = DefaultDomain

\* the header wins over a configured default, and the request goes to its host
C9_Witness ==
    /\ client # None
    /\ env.domain = "default.teamwork.com"
    /\ HeaderDomainGiven
    /\ client[1].installation_domain = "acme.teamwork.com"
    /\ Len(reqs) = 1
    /\ reqs[1].host = "acme.teamwork.com"

\* C10: in get_project_summary and the get_my_tasks tool a failed request is
\* the last request of the invocation, and the invocation ends with the error:
\* no later request is issued and no summary or task list is returned.
C10_FailsAsAWhole ==
    tool \in {"get_project_summary", "get_my_tasks"} =>
        \A i \in 1..Len(reqs) :
            reqs[i].outcome # "ok" =>
                /\ i = Len(reqs)
                /\ pc = "done"
                /\ result.kind = "error"

\* the total-count query of the summary failed after the project was fetched
C10_Witness ==
    /\ Done("get_project_summary")
    /\ Len(reqs) = 2
    /\ reqs[1].outcome = "ok"
    /\ reqs[2].outcome = "http_error"
    /\ result.kind = "error"

\* a tool of the v1 API has issued its request
V1Requested ==
    /\ Done("create_task_list") \/ Done("update_task_list")
    /\ Len(reqs) >= 1

\* the remote answered the v1 request with an HTTP response
V1Answered == V1Requested /\ "response" \in DOMAIN locals

\* requests.request raised below HTTP
V1Raised == V1Requested /\ reqs[1].outcome = "transport_error"

\* the result is the failure _request_v1 raises for an HTTP error status
HttpFailure(status, text) ==
    /\ result.kind = "error"
    /\ result.type = "RuntimeError"
    /\ result.msg.what = "TeamworkClient v1 API error"
    /\ result.msg.status = status
    /\ result.msg.text = text

\* the result is the failure _request_v1 raises for a transport failure
TransportFailure ==
    /\ result.kind = "error"
    /\ result.type = "RuntimeError"
    /\ result.msg.what = "TeamworkClient v1 request failed"
    /\ result.msg.cause \in TransportFailures
    /\ "status" \notin DOMAIN result.msg

SameRequest(r1, r2) ==
    /\ r1.method = r2.method
    /\ r1.url = r2.url
    /\ r1.params = r2.params
    /\ r1.json = r2.json

\* C12: within one operation no request is issued twice, and a failed request
\* is the last request of the operation, which then ends with an error.
C12_NoRetry ==
    /\ \A i, j \in 1..Len(reqs) : SameRequest(reqs[i], reqs[j]) => i = j
    /\ \A i \in 1..Len(reqs) :
          reqs[i].outcome # "ok" =>
              /\ i = Len(reqs)
              /\ pc = "done"
              /\ result.kind = "error"

\* a v1 request timed out and the operation ended after that one attempt
C12_Witness ==
    /\ Done("create_task_list")
    /\ Len(reqs) = 1
    /\ reqs[1].outcome = "transport_error"
    /\ TransportFailure
    /\ result.msg.cause = "Timeout"

RECURSIVE Flatten(_)
Flatten(pages) ==
    IF pages = <<>> THEN <<>> ELSE pages[1] \o Flatten(Tail(pages))

\* the total estimated minutes of the tasks of the scope
RemoteEstimated == SumOf(Flatten(remote.pages), "estimated_minutes")

\* the total logged minutes of the tasks of the scope
RemoteLogged == SumOf(Flatten(remote.pages), "logged_minutes")

\* the estimated minutes of the scope of the invocation
ScopeEstimated ==
    IF tool = "get_task_time_totals" THEN locals.response.task.estimated_minutes
    ELSE RemoteEstimated

\* the logged minutes of the scope of the invocation
ScopeLogged ==
    IF tool = "get_task_time_totals" THEN locals.response.task.logged_minutes
    ELSE RemoteLogged

\* a time-totals tool has returned its totals
TotalsReturned ==
    /\ pc = "done"
    /\ tool \in {"get_project_time_totals", "get_tasklist_time_totals",
                 "get_task_time_totals"}
    /\ result.kind = "ok"

\* C14: whatever the scope, the totals time_totals returns have
\* remaining = estimated - logged and over_budget true exactly when
\* logged > estimated, so that logged = estimated gives remaining 0 and
\* over_budget false.
C14_RemainingAndOverBudget ==
    TotalsReturned =>
        LET v == result.value
        IN  /\ v.estimated_minutes = ScopeEstimated
            /\ v.minutes = ScopeLogged
            /\ v.remaining_minutes = ScopeEstimated - ScopeLogged
            /\ v.is_over_budget = (ScopeLogged > ScopeEstimated)
            /\ ScopeLogged = ScopeEstimated
                  => v.remaining_minutes = 0 /\ v.is_over_budget = FALSE

\* a tasklist whose logged time equals its estimate, summed over two tasks
C14_Witness ==
    /\ TotalsReturned
    /\ tool = "get_tasklist_time_totals"
    /\ result.value.estimated_minutes = 60
    /\ result.value.minutes = 60
    /\ result.value.remaining_minutes = 0
    /\ result.value.is_over_budget = FALSE
    /\ Len(remote.pages[1]) = 2

\* estimate_project_budget has returned its estimate
BudgetReturned == Done("estimate_project_budget") /\ result.kind = "ok"

PagedTool ==
    tool \in {"get_project_time_totals", "get_tasklist_time_totals",
              "estimate_project_budget"}

\* the requests for pages of tasks issued so far
PageRequests == SelectSeq(reqs, LAMBDA r : r.params # None)

\* the estimated total the tool returned
ReturnedEstimated ==
    IF tool = "estimate_project_budget" THEN result.value.budget_minutes
    ELSE result.value.estimated_minutes

\* the logged total the tool returned
ReturnedLogged ==
    IF tool = "estimate_project_budget" THEN result.value.used_minutes
    ELSE result.value.minutes

\* when the totals are returned every page was requested exactly once, in
\* order, and the totals are the sums over all tasks of all pages
TotalsCoverEveryPage ==
    (PagedTool /\ pc = "done" /\ result.kind = "ok") =>
        /\ Len(PageRequests) = Len(remote.pages)
        /\ \A i \in 1..Len(PageRequests) : PageRequests[i].params.page = i
        /\ ReturnedEstimated = RemoteEstimated
        /\ ReturnedLogged = RemoteLogged

\* C16: the pagination loop of time_totals ends, with the totals or with the
\* error of a request, and the totals it returns are the sums over every task
\* of every page, each page fetched exactly once.
C16_PaginationExhausted ==
    /\ []TotalsCoverEveryPage
    /\ (pc = "totals_page") ~> (pc = "done")

\* the totals of a project of two full pages
C16_Witness ==
    /\ Done("get_project_time_totals")
    /\ result.kind = "ok"
    /\ Len(remote.pages) = 2
    /\ Len(remote.pages[2]) = 2
    /\ Len(reqs) = 2
    /\ result.value.estimated_minutes = RemoteEstimated
    /\ RemoteEstimated = 180

\* C17: a request of update_task whose payload carries both completed and
\* progress carries completed = True exactly together with progress = 100.
C17_CompletedProgressConsistent ==
    (tool \in {"update_task", "teamwork_update_task"} /\ Len(reqs) = 1) =>
        LET task == reqs[1].json.task
        IN  ("completed" \in DOMAIN task /\ "progress" \in DOMAIN task)
                => (task.completed = TRUE <=> task.progress = ProgressMax)

MyTasksCalls ==
    /\ Len(calls) \in {1, 2}
    /\ calls[1] = [method |-> "get_me", args |-> EmptyDict]
    /\ Len(calls) = 2 =>
          /\ calls[2].method = "get_my_tasks"
          /\ calls[2].args.user_id = Str(UserIdOf(locals.me))
          /\ calls[2].args.date_filter = args.date_filter
          /\ calls[2].args.include_completed = args.include_completed

OwnToken(i) == extract_token_from_headers(inv[i].hdr)[1]

\* the domain of the header bag of invocation i, or the default domain
OwnDomain(i) == GatewayDomain(inv[i].hdr, env.domain)

\* the query of invocation i is made of its own arguments and of the answer
\* to its own get_me
OwnQuery(i) ==
    Len(inv[i].reqs) = 2 =>
        inv[i].reqs[2].params =
            MyTasksParams(Str(UserIdOf(inv[i].locals.me)), inv[i].args.date_filter,
                          inv[i].args.include_completed, 100)

\* C19: of two invocations whose steps interleave each has a client built
\* from its own header bag, and every request of an invocation carries the
\* token of that bag, goes to the domain of that bag or to the default domain,
\* and is made of that invocation's own arguments and answers.
C19_Independence ==
    \A i \in Invocations :
        inv[i].client # None =>
            /\ inv[i].client[1] = TeamworkClient(OwnToken(i), OwnDomain(i))
            /\ \A k \in 1..Len(inv[i].reqs) :
                  /\ inv[i].reqs[k].authorization = <<"Bearer ", OwnToken(i)>>
                  /\ inv[i].reqs[k].host = OwnDomain(i)
            /\ OwnQuery(i)

\* both invocations are running with different header bags, the second has
\* issued its query while the first is between its two requests
C19_Witness ==
    /\ inv[1].pc = "mytasks_query"
    /\ inv[2].pc = "done"
    /\ inv[1].hdr # inv[2].hdr
    /\ inv[1].client # None /\ inv[2].client # None
    /\ OwnToken(1) = "tokA" /\ OwnToken(2) = "tokB"
    /\ "x-teamwork-domain" \notin DOMAIN inv[2].hdr
    /\ Len(inv[1].reqs) = 1
    /\ Len(inv[2].reqs) = 2
    /\ inv[2].reqs[2].host = env.domain
    /\ inv[1].reqs[1].host = "acme.teamwork.com"

\* the task query of the get_my_tasks tool has been sent
MyTasksQueried == tool = "get_my_tasks" /\ Len(reqs) = 2

\* C20: the task query of get_my_tasks always has the parameter
\* includeCompletedTasks, and its value is the string "true" when
\* include_completed is true and the string "false" when it is not.
C20_IncludeCompletedSent ==
    MyTasksQueried =>
        /\ "includeCompletedTasks" \in DOMAIN reqs[2].params
        /\ reqs[2].params.includeCompletedTasks \in {"true", "false"}
        /\ reqs[2].params.includeCompletedTasks = "true" <=> args.include_completed

\* completed tasks were not wanted and the parameter was sent as "false"
C20_Witness ==
    /\ MyTasksQueried
    /\ args.include_completed = FALSE
    /\ reqs[2].method = "GET"
    /\ reqs[2].params.includeCompletedTasks = "false"

\* the client methods that go to the legacy v1 API
V1Methods == {"create_task_list", "update_task_list"}

\* the tool in progress calls only methods that teamwork_mcp/client.py defines
SourceTool ==
    /\ tool \in {e.tool : e \in RegisteredTools}
    /\ Entry(tool).method \in ClientMethodsDefined

\* the sequence s begins with the sequence b
BeginsWith(s, b) == Len(b) <= Len(s) /\ SubSeq(s, 1, Len(b)) = b

UpdateFields(t) ==
    IF t = "update_project"
    THEN {"name", "description", "status", "start_date", "end_date"}
    ELSE {"name", "description"}

\* C22: update_project and update_task_list, called on a client with none of
\* their optional fields, raise a ValueError and issue no request; called with
\* at least one field they issue exactly one request.
C22_RequiresAField ==
    (pc = "done" /\ tool \in {"update_project", "update_task_list"}
        /\ client # None) =>
        IF UpdateFields(tool) \cap DOMAIN args = {}
        THEN /\ reqs = <<>>
             /\ result.kind = "error"
             /\ result.type = "ValueError"
        ELSE /\ Len(reqs) = 1
             /\ ~(result.kind = "error" /\ result.type = "ValueError")

\* update_project was called with a project id alone and raised
C22_Witness ==
    /\ Done("update_project")
    /\ client # None
    /\ DOMAIN args = {"project_id"}
    /\ reqs = <<>>
    /\ result = ValueError("update_project requires at least one field to update")

\* the i-th request of the summary: a GET of the path with the query
SummaryRequest(i, path, params) ==
    /\ reqs[i].method = "GET"
    /\ reqs[i].url = client[1].base_url \o path
    /\ reqs[i].params = params
    /\ reqs[i].json = None

\* C23: get_project_summary issues its requests one after the other, each only
\* after the one before it succeeded: the project, the task count, the overdue
\* count, the count due this week, the three task queries with the project id
\* and pageSize 1.  When it returns a summary it has issued exactly these four,
\* and taskStats holds the three counts read from the answers.
C23_FourSerialQueries ==
    (tool = "get_project_summary" /\ client # None) =>
        /\ Len(reqs) <= 4
        /\ \A i \in 1..(Len(reqs) - 1) : reqs[i].outcome = "ok"
        /\ Len(reqs) >= 1 =>
              SummaryRequest(1, <<"/projects/", args.project_id, ".json">>, None)
        /\ Len(reqs) >= 2 =>
              SummaryRequest(2, <<"/tasks.json">>,
                             [projectId |-> args.project_id, pageSize |-> 1])
        /\ Len(reqs) >= 3 =>
              SummaryRequest(3, <<"/tasks.json">>,
                             [projectId |-> args.project_id,
                              filter |-> "overdue", pageSize |-> 1])
        /\ Len(reqs) = 4 =>
              SummaryRequest(4, <<"/tasks.json">>,
                             [projectId |-> args.project_id,
                              filter |-> "thisweek", pageSize |-> 1])
        /\ (pc = "done" /\ result.kind = "ok") =>
              /\ Len(reqs) = 4
              /\ reqs[4].outcome = "ok"
              /\ result.value.taskStats =
                    [ total |-> locals.total_count,
                      overdue |-> locals.overdue_count,
                      dueThisWeek |-> locals.thisweek_count ]

\* a summary was returned after four requests, with three different counts
C23_Witness ==
    /\ Done("get_project_summary")
    /\ result.kind = "ok"
    /\ Len(reqs) = 4
    /\ reqs[3].params.filter = "overdue"
    /\ reqs[4].params.filter = "thisweek"
    /\ result.value.taskStats = [total |-> 20, overdue |-> 2, dueThisWeek |-> 1]

\* the payload key of an optional argument of update_task
TaskPayloadKey(k) ==
    IF k = "due_date" THEN "dueDate"
    ELSE IF k = "estimated_minutes" THEN "estimatedMinutes"
    ELSE k

\* C24: the task payload of the PATCH of update_task has a key for exactly the
\* optional arguments the caller supplied, each with the supplied value.
C24_OnlyProvidedFields ==
    (tool \in {"update_task", "teamwork_update_task"} /\ Len(reqs) = 1) =>
        LET task == reqs[1].json.task
            supplied == DOMAIN args \ {"task_id"}
        IN  /\ reqs[1].method = "PATCH"
            /\ DOMAIN reqs[1].json = {"task"}
            /\ DOMAIN task = { TaskPayloadKey(k) : k \in supplied }
            /\ \A k \in supplied : task[TaskPayloadKey(k)] = args[k]

\* a task was updated with a due date and an empty description alone
C24_Witness ==
    /\ Done("update_task")
    /\ Len(reqs) = 1
    /\ DOMAIN args = {"task_id", "due_date", "description"}
    /\ reqs[1].json = [task |-> [dueDate |-> "2026-01-31", description |-> ""]]

\* the one request of the update_task tool for the arguments a
UpdateTaskRequest(a) ==
    Request(client[1], "PATCH", <<"/tasks/", a.task_id, ".json">>, None,
            update_task(a).payload, reqs[1].outcome)

\* the one request of the update_project tool for the arguments a
UpdateProjectRequest(a) ==
    Request(client[1], "PATCH", <<"/projects/", a.project_id, ".json">>, None,
            update_project(a).payload, reqs[1].outcome)

\* C25: complete_task on a client issues the one request of update_task with
\* completed = True alone, archive_project the one request of update_project
\* with status = "archived" alone, and neither raises a ValueError.
C25_ConvenienceRefines ==
    (pc = "done" /\ client # None) =>
        /\ tool \in {"complete_task", "teamwork_complete_task"} =>
              /\ Len(reqs) = 1
              /\ reqs[1] = UpdateTaskRequest([task_id |-> args.task_id,
                                              completed |-> TRUE])
              /\ reqs[1].json = [task |-> [completed |-> TRUE]]
              /\ ~(result.kind = "error" /\ result.type = "ValueError")
        /\ tool = "archive_project" =>
              /\ Len(reqs) = 1
              /\ reqs[1] = UpdateProjectRequest([project_id |-> args.project_id,
                                                 status |-> "archived"])
              /\ reqs[1].json = [project |-> [status |-> "archived"]]
              /\ ~(result.kind = "error" /\ result.type = "ValueError")

\* a project was archived by one PATCH of its status
C25_Witness ==
    /\ Done("archive_project")
    /\ Len(reqs) = 1
    /\ reqs[1].method = "PATCH"
    /\ reqs[1].url = client[1].base_url \o <<"/projects/", "101", ".json">>
    /\ reqs[1].json = [project |-> [status |-> "archived"]]
    /\ result = Ok(ProjectBody)

\* a summary was returned for a project whose tasks the remote holds
ObservedSummary ==
    /\ Done("get_project_summary")
    /\ result.kind = "ok"
    /\ remote # EmptyDict

\* C26 as stated: the overdue count of a returned summary never exceeds its
\* total count, whatever happens to the tasks between the queries.
C26_AsStated ==
    ObservedSummary =>
        result.value.taskStats.overdue <= result.value.taskStats.total

\* C26: the remote never holds more overdue tasks than tasks, and the overdue
\* count of a returned summary does not exceed its total count when no task
\* was created, completed or deleted between the total query and the overdue
\* query.
C26_ConsistentWhenQuiet ==
    /\ remote # EmptyDict => remote.overdue <= remote.total
    /\ (ObservedSummary /\ ~remote.changed) =>
          result.value.taskStats.overdue <= result.value.taskStats.total

\* a summary of a project with two tasks, one overdue, that nobody changed
\* between the two queries
C26_Witness ==
    /\ ObservedSummary
    /\ ~remote.changed
    /\ result.value.taskStats.total = 2
    /\ result.value.taskStats.overdue = 1

\* the literal text a path or the base path opens with: each begins with "/"
PathOpeners ==
    {"/projects/api/v3"} \cup { q.prefix : q \in ClientRequests }

\* the host of the address url: what stands between the scheme and the first
\* "/" after it
HostOf(url) ==
    IF Len(url) >= 3 /\ url[1] = "https://" /\ url[3] \in PathOpeners
    THEN Some(url[2]) ELSE None

\* the header bag of the caller names an installation domain
OwnDomainGiven ==
    "x-teamwork-domain" \in DOMAIN hdr /\ hdr["x-teamwork-domain"] # ""

\* C27: every request of a tool whose client method is in client.py, v3 or v1,
\* has for host the installation domain its client was constructed with, and
\* for Authorization header "Bearer " and the access token of that client.
C27_OwnDomainAndToken ==
    (SourceTool /\ client # None) =>
        \A i \in 1..Len(reqs) :
            /\ HostOf(reqs[i].url) = Some(client[1].installation_domain)
            /\ reqs[i].host = client[1].installation_domain
            /\ reqs[i].authorization = <<"Bearer ", client[1].access_token>>

\* a task list was renamed through the v1 API on the domain and with the token
\* of the caller's header bag
C27_Witness ==
    /\ Done("update_task_list")
    /\ Len(reqs) = 1
    /\ reqs[1].api = "v1"
    /\ OwnDomainGiven
    /\ HostOf(reqs[1].url) = Some(hdr["x-teamwork-domain"])
    /\ reqs[1].authorization = <<"Bearer ", extract_token_from_headers(hdr)[1]>>

\* the HTTP methods that can change the remote
ChangingVerbs == {"POST", "PUT", "PATCH", "DELETE"}

\* C28: a read operation of client.py, a list_ or get_ method, issues only GET
\* requests, in the table of requests and in every run of a tool; a request
\* with POST, PUT, PATCH or DELETE comes from a create, update, complete,
\* archive, move, add, log or timer operation only.
C28_ReadsOnlyGet ==
    /\ \A q \in ClientRequests : q.method \in ReadMethods => q.http = "GET"
    /\ (SourceTool /\ client # None) =>
          \A i \in 1..Len(reqs) :
             /\ Entry(tool).method \in ReadMethods => reqs[i].method = "GET"
             /\ reqs[i].method \in ChangingVerbs =>
                   Entry(tool).method \in WriteMethods
             /\ reqs[i].method \in ChangingVerbs \cup {"GET"}

\* the list of milestones of a project was read with one GET
C28_Witness ==
    /\ Done("list_milestones")
    /\ Entry(tool).method \in ReadMethods
    /\ Len(reqs) = 1
    /\ reqs[1].method = "GET"
    /\ reqs[1].url = client[1].base_url \o <<"/projects/", "x", "/milestones.json">>
    /\ result = Forwarded("list_milestones")

\* C29: the get_my_tasks tool issues GET /me.json first and the task query
\* only after its answer, with the id of the user of that answer as
\* responsiblePartyIds; when the answer carries no id the tool raises and
\* issues no task query.
C29_QueryOnlyWithUserId ==
    (tool = "get_my_tasks" /\ client # None) =>
        /\ Len(reqs) <= 2
        /\ Len(reqs) >= 1 =>
              /\ reqs[1].method = "GET"
              /\ reqs[1].url = client[1].base_url \o <<"/me.json">>
        /\ Len(reqs) = 2 =>
              /\ reqs[1].outcome = "ok"
              /\ reqs[2].url = client[1].base_url \o <<"/tasks.json">>
              /\ UserIdOf(locals.me) # None
              /\ reqs[2].params.responsiblePartyIds = Str(UserIdOf(locals.me))
        /\ (pc = "done" /\ Len(reqs) >= 1 /\ reqs[1].outcome = "ok"
              /\ UserIdOf(locals.me) = None) =>
              /\ Len(reqs) = 1
              /\ result.kind = "error"

====
